---- MODULE Spec2Model ----
(***************************************************************************)
(* Page classification, per-document analysis, batch aggregation and the   *)
(* shared recognizer slot of smeta-mu-analyzer (src/main.py, web_gui.py).  *)
(*                                                                         *)
(* The reason strings of the program are Cyrillic; the model writes them   *)
(* in ASCII (the source string is quoted next to each).                    *)
(***************************************************************************)
EXTENDS Integers, Sequences, FiniteSets, TLC

\* ------------------------------------------------------------ bounds
\* Longest list of files handed to one batch run.
MaxDocs == 2
\* Most embedded images on an explored page.
MaxImages == 2
\* Calls of get_pix2text_model() each concurrent caller makes.
MaxCalls == 2
\* Concurrent callers of get_pix2text_model().
NumThreads == 2
\* Most cells in an explored grid of _is_valid_table.
MaxCells == 6
\* Most cells of an explored grid that are not None.
MaxFilled == 3
MaxTables == 3
MaxText == 6
MaxFormulaText == 4
MaxTokens == 3
NumRequests == 3

\* ------------------------------------------------------------ constants
\* PRICING, src/main.py:60-65
PRICING == [w \in 1..4 |-> CASE w = 4 -> 34 [] w = 3 -> 25 [] w = 2 -> 21 [] w = 1 -> 9]

\* Reason strings of _analyze_single_page / analyze.
R_FORMULA_TEXT  == "formula (text)"      \* "Формула (текст)"        main.py:1062
R_FORMULA_IMAGE == "formula (image)"     \* "Формула (изображение)"  main.py:1071
R_IMAGE         == "image"               \* "Изображение"            main.py:1080
R_TABLE         == "table"               \* "Таблица"                main.py:1091
R_SPECIAL       == "special script"      \* "Иероглифы/араб. вязь"   main.py:1100
R_FOOTNOTE      == "footnoted text"      \* "Текст со сносками"      main.py:1109
R_PLAIN         == "plain text"          \* "Простой текст"          main.py:1048
R_ERROR         == "analysis error"      \* "Ошибка анализа: ..."    main.py:1013

Reasons == {R_FORMULA_TEXT, R_FORMULA_IMAGE, R_IMAGE, R_TABLE, R_SPECIAL,
            R_FOOTNOTE, R_PLAIN, R_ERROR}

\* The six wrapped stages of _analyze_single_page, in source order: text
\* formula, image formula, image, table, special script, footnote.
Stages == 1..6

\* ------------------------------------------------------------ inputs
\* What one embedded image does when _image_has_formulas examines it:
\*   plain          recognition returns no formula region and no formula text
\*   formula_region a region with type 'formula'
\*   formula_text   a region whose text satisfies _has_formulas
\*   error          extraction, decoding or recognition raises for this image
ImgKinds == {"plain", "formula_region", "formula_text", "error"}

RECURSIVE SeqsUpTo(_, _)
SeqsUpTo(S, n) ==
    IF n = 0 THEN {<< >>}
    ELSE LET shorter == SeqsUpTo(S, n - 1)
         IN  shorter \cup {Append(s, x) : s \in {t \in shorter : Len(t) = n - 1}, x \in S}

ImageLists == SeqsUpTo(ImgKinds, MaxImages)

\* A page as the extraction libraries present it to the pipeline:
\*   extract   doc[page_index] and get_text() succeed
\*   formula   _has_formulas(page_text)
\*   images    page.get_images(full=True), one kind per image
\*   table     some grid of extract_tables() passes _is_valid_table
\*   special   _has_special_chars(page_text)
\*   footnote  _has_footnotes(page_text)
\*   flaky     the stages whose evaluation may raise on this page
MkPage(e, f, im, t, s, n, fl) ==
    [extract |-> e, formula |-> f, images |-> im, table |-> t,
     special |-> s, footnote |-> n, flaky |-> fl]

AllPages ==
    {MkPage(e, f, im, t, s, n, Stages) :
        e \in BOOLEAN, f \in BOOLEAN, im \in ImageLists,
        t \in BOOLEAN, s \in BOOLEAN, n \in BOOLEAN}

\* A file of the batch: path (distinct per file), whether PDFAnalyzer(path)
\* constructs, whether fitz.open succeeds, whether pdfplumber.open succeeds,
\* and its pages.
MkDoc(p, c, o, pl, pgs) ==
    [path |-> p, ctor |-> c, opens |-> o, pdfOk |-> pl, pages |-> pgs]

PFormulaTable == MkPage(TRUE, TRUE, << >>, TRUE, FALSE, FALSE, {})
PImageNotes   == MkPage(TRUE, FALSE, <<"plain">>, FALSE, FALSE, TRUE, {})
PPlain        == MkPage(TRUE, FALSE, << >>, FALSE, FALSE, FALSE, {})
PTableScript  == MkPage(TRUE, FALSE, << >>, TRUE, TRUE, FALSE, {})
PFootnote     == MkPage(TRUE, FALSE, << >>, FALSE, FALSE, TRUE, {})
PFormulaImage == MkPage(TRUE, FALSE, <<"formula_region">>, FALSE, FALSE, FALSE, {})

\* The documents a batch is drawn from.
Catalogue ==
    { MkDoc("a.pdf", TRUE, TRUE, TRUE, <<PFormulaTable, PImageNotes, PPlain>>),
      MkDoc("b.pdf", TRUE, TRUE, TRUE, <<PTableScript>>),
      MkDoc("c.pdf", TRUE, TRUE, FALSE, <<PFootnote, PTableScript>>),
      MkDoc("d.pdf", TRUE, FALSE, TRUE, <<PPlain>>),
      MkDoc("e.docx", FALSE, TRUE, TRUE, <<PPlain>>),
      MkDoc("f.pdf", TRUE, TRUE, TRUE, << >>),
      MkDoc("g.pdf", TRUE, TRUE, TRUE, <<PFormulaImage>>),
      MkDoc("h.pdf", TRUE, TRUE, TRUE, <<PFormulaImage>>) }

Paths == {d.path : d \in Catalogue} \cup {"page.pdf"}

\* find_supported_files returns sorted(glob results): distinct paths.
FileLists ==
    {fs \in SeqsUpTo(Catalogue, MaxDocs) :
        \A a, b \in 1..Len(fs) : a # b => fs[a].path # fs[b].path}

Threads == 1..NumThreads

VARIABLES
    files,              \* the list of files being processed
    mode,               \* "batch": batch_process_directory, "web": process_files_worker
    pc,                 \* position of the (single) processing thread
    i,                  \* enumerate(files, 1) index of the current file
    analyzer,           \* "None" or "obj": the local variable analyzer
    p2t,                \* analyzer.p2t: "None" or "model"
    analysis_results,   \* analyzer.analysis_results
    pdf,                \* the pdfplumber handle inside analyze(): "None" or "open"
    page_num,           \* page_num of analyze()'s loop (0 before the first page)
    page_weight,        \* locals of _analyze_single_page
    reason,
    evald,              \* stages evaluated on the current page, with their outcome
    ret,                \* pairs returned by _analyze_single_page for the current page
    results,            \* the results dict, path -> [cost, pages, dataframe]
    total_cost,         \* running total of batch_process_directory
    successful_files,
    failed_files,
    cleaned,            \* paths whose analyzer had cleanup() called
    raised,             \* paths whose constructor or analyze() raised
    report_total,       \* total_cost of save_batch_report (-1 before it ran)
    _global_p2t_model,   \* _global_p2t_model: "None" or "model"
    _model_lock,         \* _model_lock: 0 when free, else the holding thread
    tpc,                \* position of each concurrent caller of get_pix2text_model
    tcalls,             \* calls each concurrent caller has started
    tret,               \* what each caller's last call returned
    ctor_runs,          \* times Pix2Text() was run
    ctor_ok,            \* times Pix2Text() returned a model
    img_p2t,            \* self.p2t of a call of _image_has_formulas examined alone
    img_flaky,          \* whether page.get_images() may raise in that call
    img_list,           \* the images of its page, one kind per image
    img_pc,             \* its position: "idle", "entry", "loop", "done"
    img_log,            \* what it did with each image it examined, in order
    img_ret,            \* "running", then "True", "False" or "raised"
    table,              \* the grid handed to a call of _is_valid_table examined alone
    tab_pc,             \* its position: "idle", "shape", ..., "done"
    tab_ret,            \* "running", then "True" or "False"
    tables,             \* what extract_tables() yields in a call of _has_valid_tables
    hvt_raises,         \* whether extract_tables() raises in that call
    hvt_pc,             \* its position: "idle", "extract", "loop", "done"
    hvt_k,              \* grids of `for table in tables` already examined
    hvt_ret,            \* "running", then "True" or "False"
    text,               \* the page text handed to a text detector examined alone
    fn_pc,              \* position of _has_footnotes: "idle", "refs", "defs", "pair", "done"
    text_footnote_refs, \* its set text_footnote_refs
    footnote_definitions, \* its set footnote_definitions
    fn_ret,             \* "running", then "True" or "False"
    fm_pc,              \* position of _has_formulas: "idle", "patterns", "multiline", "done"
    fm_ret,             \* "running", then "True" or "False"
    processing_status,  \* web_gui.processing_status: the fields active, progress, log
    req_pc,             \* position of each /process request in process_files
    worker_pc           \* position of the process_files_worker thread of each request

batchVars == <<files, mode, pc, i, analyzer, p2t, analysis_results, pdf, page_num,
               page_weight, reason, evald, ret, results, total_cost,
               successful_files, failed_files, cleaned, raised, report_total>>
threadVars == <<_model_lock, tpc, tcalls, tret>>
modelVars == <<_global_p2t_model, ctor_runs, ctor_ok>>
imageVars == <<img_p2t, img_flaky, img_list, img_pc, img_log, img_ret>>
tableVars == <<table, tab_pc, tab_ret>>
pageTablesVars == <<tables, hvt_raises, hvt_pc, hvt_k, hvt_ret>>
footnoteVars == <<fn_pc, text_footnote_refs, footnote_definitions, fn_ret>>
formulaVars == <<fm_pc, fm_ret>>
textVars == <<text, footnoteVars, formulaVars>>
webVars == <<processing_status, req_pc, worker_pc>>
detectorVars == <<imageVars, tableVars, pageTablesVars, textVars, webVars>>
vars == <<batchVars, threadVars, modelVars, detectorVars>>

\* ------------------------------------------------------------ helpers
\* One row of analysis_results ("Страница", "Вес", "Стоимость (руб.)", "Обоснование").
Entry(n, w, r) == [page |-> n, weight |-> w, cost |-> PRICING[w], reason |-> r]

\* df["Стоимость (руб.)"].sum(): the costs added in row order.
RECURSIVE SumCost(_)
SumCost(df) == IF df = << >> THEN 0 ELSE Head(df).cost + SumCost(Tail(df))

\* Variant of ScanImages: an image that could not be examined counts as a
\* formula.
RECURSIVE ScanImagesErrorMatches(_)
ScanImagesErrorMatches(images) ==
    IF images = << >> THEN FALSE
    ELSE IF Head(images) \in {"formula_region", "formula_text", "error"} THEN TRUE
    ELSE ScanImagesErrorMatches(Tail(images))

\* The loop of _image_has_formulas over the page's images: the first image with
\* a formula region or formula text returns True, an image that raises is
\* skipped (continue), and the loop falling off its end returns False.
RECURSIVE ScanImages(_)
ScanImages(images) ==
    IF images = << >> THEN FALSE
    ELSE IF Head(images) \in {"formula_region", "formula_text"} THEN TRUE
    ELSE ScanImages(Tail(images))

\* Variant of _image_has_formulas: no test of self.p2t, the images are scanned
\* whether or not the analyzer holds a recognizer.
_image_has_formulas_unguarded(model, images) ==
    IF images = << >> THEN FALSE ELSE ScanImages(images)

_image_has_formulas(model, images) ==
    IF model = "None" THEN FALSE
    ELSE IF images = << >> THEN FALSE
    ELSE ScanImages(images)

\* Variant of OnMatch: the stage sets page_weight and reason but does not
\* return, so the stages after it still run.
OnMatchFallsThrough(next) == next

\* Variant of OnMatch: a match of the text formula stage does not return, the
\* image formula stage (and with it the recognizer) still runs on the page.
OnMatchStillRunsRecognizer(next) == IF next = "s2" THEN "s2" ELSE "return"

\* Where control goes when a stage's test is true: `return page_weight, reason`.
OnMatch(next) == "return"

\* Variant of OnRaise: the stage has no try block of its own, so the outer
\* `except Exception` takes the exception and the remaining stages are skipped.
OnRaiseSkipsRest(next) == "return"

\* Where control goes when a stage raises: the stage's own `except Exception`
\* logs and falls through to the stage after it.
OnRaise(next) == next

\* Variant of OnExtractRaise: no outer try block, the exception reaches
\* analyze()'s `except Exception as page_error`.
OnExtractRaisePropagates == "page_error"

\* Where control goes when doc[page_index] or get_text() raises: the outer
\* `except Exception` logs and falls to the final return.
OnExtractRaise == "return"

CurDoc == files[i]
CurPage == CurDoc.pages[page_num]

\* The outcomes the evaluation of stage k can have on the current page.
Outcomes(k, mayRaise, matches) ==
    (IF mayRaise /\ k \in CurPage.flaky THEN {"raise"} ELSE {})
        \cup {IF matches THEN "match" ELSE "none"}

StageStep(k, out, w, r, next) ==
    /\ evald' = Append(evald, [stage |-> k, out |-> out])
    /\ IF out = "match"
         THEN /\ page_weight' = w
              /\ reason' = r
              /\ pc' = OnMatch(next)
         ELSE /\ UNCHANGED <<page_weight, reason>>
              /\ pc' = IF out = "raise" THEN OnRaise(next) ELSE next

pageFrame == <<files, mode, i, analyzer, p2t, analysis_results, pdf, page_num, ret,
               results, total_cost, successful_files, failed_files, cleaned, raised,
               report_total, threadVars, modelVars, detectorVars>>

\* ------------------------------------------------------------ _analyze_single_page
\* pymupdf_page = doc[page_index]; page_text = pymupdf_page.get_text("text")
Extract ==
    /\ pc = "extract"
    /\ pc' = IF CurPage.extract THEN "s1" ELSE OnExtractRaise
    /\ UNCHANGED <<page_weight, reason, evald, pageFrame>>

\* 1. self._has_formulas(page_text)
TextFormulaStage ==
    /\ pc = "s1"
    /\ \E out \in Outcomes(1, TRUE, CurPage.formula) :
           StageStep(1, out, 4, R_FORMULA_TEXT, "s2")
    /\ UNCHANGED pageFrame

\* 2. self._image_has_formulas(pymupdf_page); with p2t None it returns False
\*    before it touches the page.
ImageFormulaStage ==
    /\ pc = "s2"
    /\ \E out \in Outcomes(2, p2t # "None", _image_has_formulas(p2t, CurPage.images)) :
           StageStep(2, out, 4, R_FORMULA_IMAGE, "s3")
    /\ UNCHANGED pageFrame

\* 3. pymupdf_page.get_images(full=True)
ImageStage ==
    /\ pc = "s3"
    /\ \E out \in Outcomes(3, TRUE, CurPage.images # << >>) :
           StageStep(3, out, 3, R_IMAGE, "s4")
    /\ UNCHANGED pageFrame

\* 4. if pdf: self._has_valid_tables(pdf.pages[page_index], page_text)
TableStage ==
    /\ pc = "s4"
    /\ IF pdf = "None"
         THEN /\ pc' = "s5"
              /\ UNCHANGED <<page_weight, reason, evald>>
         ELSE \E out \in Outcomes(4, TRUE, CurPage.table) :
                  StageStep(4, out, 3, R_TABLE, "s5")
    /\ UNCHANGED pageFrame

\* 5. self._has_special_chars(page_text)
SpecialStage ==
    /\ pc = "s5"
    /\ \E out \in Outcomes(5, TRUE, CurPage.special) :
           StageStep(5, out, 2, R_SPECIAL, "s6")
    /\ UNCHANGED pageFrame

\* 6. self._has_footnotes(page_text)
FootnoteStage ==
    /\ pc = "s6"
    /\ \E out \in Outcomes(6, TRUE, CurPage.footnote) :
           StageStep(6, out, 2, R_FOOTNOTE, "return")
    /\ UNCHANGED pageFrame

\* return page_weight, reason
Return ==
    /\ pc = "return"
    /\ ret' = Append(ret, <<page_weight, reason>>)
    /\ pc' = "record"
    /\ UNCHANGED <<files, mode, i, analyzer, p2t, analysis_results, pdf, page_num,
                   page_weight, reason, evald, results, total_cost, successful_files,
                   failed_files, cleaned, raised, report_total, threadVars, modelVars, detectorVars>>

\* ------------------------------------------------------------ PDFAnalyzer
\* Variant of OnModelError: __init__ does not catch the exception, so the
\* construction of the analyzer fails with it.
OnModelErrorPropagates == "except"

\* Where __init__ goes when get_pix2text_model() raises: `except Exception`
\* sets self.p2t = None and construction completes.
OnModelError == "analyze"

\* get_pix2text_model() as PDFAnalyzer.__init__ calls it from the one
\* processing thread: an empty slot runs Pix2Text(); a failure leaves the slot
\* None and re-raises, and __init__ then sets self.p2t = None.
Construct ==
    /\ pc = "construct"
    /\ IF ~CurDoc.ctor
         THEN \* FileNotFoundError, or convert_doc_to_pdf raised
              /\ pc' = "except"
              /\ UNCHANGED <<analyzer, p2t, analysis_results, modelVars>>
         ELSE /\ analyzer' = "obj"
              /\ analysis_results' = << >>
              /\ IF _global_p2t_model = "None"
                   THEN \E ok \in BOOLEAN :
                            /\ pc' = IF ok THEN "analyze" ELSE OnModelError
                            /\ ctor_runs' = ctor_runs + 1
                            /\ ctor_ok' = IF ok THEN ctor_ok + 1 ELSE ctor_ok
                            /\ _global_p2t_model' = IF ok THEN "model" ELSE "None"
                            /\ p2t' = IF ok THEN "model" ELSE "None"
                   ELSE /\ pc' = "analyze"
                        /\ p2t' = _global_p2t_model
                        /\ UNCHANGED modelVars
    /\ UNCHANGED <<files, mode, i, pdf, page_num, page_weight, reason, evald, ret,
                   results, total_cost, successful_files, failed_files, cleaned,
                   raised, report_total, threadVars, detectorVars>>

\* analyze(): fitz.open raising is re-raised as RuntimeError; pdfplumber.open
\* raising leaves pdf = None and the analysis goes on.
AnalyzeOpen ==
    /\ pc = "analyze"
    /\ IF ~CurDoc.opens
         THEN /\ pc' = "except"
              /\ UNCHANGED <<pdf, page_num>>
         ELSE /\ pdf' = IF CurDoc.pdfOk THEN "open" ELSE "None"
              /\ page_num' = 0
              /\ pc' = "page_loop"
    /\ UNCHANGED <<files, mode, i, analyzer, p2t, analysis_results, page_weight,
                   reason, evald, ret, results, total_cost, successful_files,
                   failed_files, cleaned, raised, report_total, threadVars, modelVars, detectorVars>>

\* for i in range(num_pages): page_num = i + 1; the call of
\* _analyze_single_page sets page_weight = 1, reason = "Простой текст".
\* After the last page the finally block closes both handles and analyze returns.
PageLoop ==
    /\ pc = "page_loop"
    /\ IF page_num < Len(CurDoc.pages)
         THEN /\ page_num' = page_num + 1
              /\ page_weight' = 1
              /\ reason' = R_PLAIN
              /\ evald' = << >>
              /\ ret' = << >>
              /\ pc' = "extract"
              /\ UNCHANGED pdf
         ELSE /\ pdf' = "None"
              /\ pc' = "collect"
              /\ UNCHANGED <<page_num, page_weight, reason, evald, ret>>
    /\ UNCHANGED <<files, mode, i, analyzer, p2t, analysis_results, results,
                   total_cost, successful_files, failed_files, cleaned,
                   raised, report_total, threadVars, modelVars, detectorVars>>

\* self.analysis_results.append({...}) with the returned pair, then the progress
\* print, the debug log and the periodic gc.collect(); if one of those raises,
\* control passes to `except Exception as page_error`.
Record ==
    /\ pc = "record"
    /\ analysis_results' =
           Append(analysis_results, Entry(page_num, ret[1][1], ret[1][2]))
    /\ \E postRaises \in BOOLEAN :
           pc' = IF postRaises THEN "page_error" ELSE "page_loop"
    /\ UNCHANGED <<files, mode, i, analyzer, p2t, pdf, page_num, page_weight, reason,
                   evald, ret, results, total_cost, successful_files, failed_files,
                   cleaned, raised, report_total, threadVars, modelVars, detectorVars>>

\* except Exception as page_error: append a weight-1 entry, then print; a
\* raising print leaves the loop through analyze's outer except, which logs and
\* re-raises after the finally block closed the handles.
PageError ==
    /\ pc = "page_error"
    /\ analysis_results' = Append(analysis_results, Entry(page_num, 1, R_ERROR))
    /\ \E printRaises \in BOOLEAN :
           IF printRaises
             THEN pc' = "except" /\ pdf' = "None"
             ELSE pc' = "page_loop" /\ UNCHANGED pdf
    /\ UNCHANGED <<files, mode, i, analyzer, p2t, page_num, page_weight, reason,
                   evald, ret, results, total_cost, successful_files, failed_files,
                   cleaned, raised, report_total, threadVars, modelVars, detectorVars>>

\* cleanup(): clears analysis_results and drops the analyzer's model reference.
Cleanup ==
    /\ analysis_results' = << >>
    /\ p2t' = "None"
    /\ cleaned' = cleaned \cup {CurDoc.path}

\* ------------------------------------------------------------ batch loop
\* Variant of file_cost: the "Вес" column is added instead of the cost column.
RECURSIVE file_cost_of_weights(_)
file_cost_of_weights(df) ==
    IF df = << >> THEN 0 ELSE Head(df).weight + file_cost_of_weights(Tail(df))

\* file_cost = df["Стоимость (руб.)"].sum()
file_cost(df) == SumCost(df)

\* results[file_path] = {'cost': ..., 'pages': len(df), 'dataframe': df}
Put(res, path, df) ==
    [p \in DOMAIN res \cup {path} |->
        IF p = path
          THEN [cost |-> file_cost(df), pages |-> Len(df), dataframe |-> df]
          ELSE res[p]]

\* total_cost of save_batch_report: data['cost'] added over results.items().
RECURSIVE SumDict(_, _)
SumDict(res, keys) ==
    IF keys = {} THEN 0
    ELSE LET k == CHOOSE x \in keys : TRUE
         IN  res[k].cost + SumDict(res, keys \ {k})

\* Variant of AddCost: the running total is overwritten, not added to.
AddCostOverwrites(total, c) == c

\* total_cost += file_cost
AddCost(total, c) == total + c

\* Variant of OnFileError: the exception is not caught inside the loop, so the
\* loop over the files ends at the first failing file.
OnFileErrorAborts(m) == "returned"

\* Where control goes after `except Exception as e` inside the loop over the
\* files: the batch runs its finally block and takes the next file, the web
\* worker takes the next file.
OnFileError(m) == IF m = "batch" THEN "finally" ELSE "loop"

\* batch_process_directory up to its loop: no files returns {} at once.
Start ==
    /\ pc = "start"
    /\ pc' = IF files = << >> THEN "done" ELSE "loop"
    /\ UNCHANGED <<files, mode, i, analyzer, p2t, analysis_results, pdf, page_num,
                   page_weight, reason, evald, ret, results, total_cost,
                   successful_files, failed_files, cleaned, raised, report_total,
                   threadVars, modelVars, detectorVars>>

\* for i, file_path in enumerate(files, 1): analyzer = None. The analyzer of
\* the file before is no longer referenced.
Loop ==
    /\ pc = "loop"
    /\ IF i < Len(files)
         THEN /\ i' = i + 1
              /\ pc' = "construct"
         ELSE /\ i' = i
              /\ pc' = "returned"
    /\ analyzer' = "None"
    /\ p2t' = "None"
    /\ analysis_results' = << >>
    /\ UNCHANGED <<files, mode, pdf, page_num, page_weight, reason, evald, ret,
                   results, total_cost, successful_files, failed_files, cleaned,
                   raised, report_total, threadVars, modelVars, detectorVars>>

\* df = analyzer.get_summary_dataframe(); a non-empty df is recorded. The batch
\* goes on to its finally block; the web worker has none and takes the next file.
Collect ==
    /\ pc = "collect"
    /\ IF analysis_results # << >>
         THEN /\ results' = Put(results, CurDoc.path, analysis_results)
              /\ IF mode = "batch"
                   THEN /\ total_cost' = AddCost(total_cost, file_cost(analysis_results))
                        /\ successful_files' = successful_files + 1
                   ELSE UNCHANGED <<total_cost, successful_files>>
              /\ UNCHANGED failed_files
         ELSE /\ failed_files' = IF mode = "batch" THEN failed_files + 1 ELSE failed_files
              /\ UNCHANGED <<results, total_cost, successful_files>>
    /\ pc' = IF mode = "batch" THEN "finally" ELSE "loop"
    /\ UNCHANGED <<files, mode, i, analyzer, p2t, analysis_results, pdf, page_num,
                   page_weight, reason, evald, ret, cleaned, raised, report_total,
                   threadVars, modelVars, detectorVars>>

\* except Exception as e: the batch counts a failed file and goes to finally;
\* the web worker logs and calls cleanup() if the analyzer was constructed.
Except ==
    /\ pc = "except"
    /\ raised' = raised \cup {CurDoc.path}
    /\ pc' = OnFileError(mode)
    /\ IF mode = "batch"
         THEN /\ failed_files' = failed_files + 1
              /\ UNCHANGED <<analysis_results, p2t, cleaned>>
         ELSE /\ UNCHANGED failed_files
              /\ IF analyzer # "None"
                   THEN Cleanup
                   ELSE UNCHANGED <<analysis_results, p2t, cleaned>>
    /\ UNCHANGED <<files, mode, i, analyzer, pdf, page_num, page_weight, reason,
                   evald, ret, results, total_cost, successful_files, report_total,
                   threadVars, modelVars, detectorVars>>

\* Variant of Finally: cleanup() is only called for a file that did not fail.
FinallyOnSuccessOnly ==
    /\ pc = "finally"
    /\ IF analyzer # "None" /\ CurDoc.path \notin raised
         THEN Cleanup
         ELSE UNCHANGED <<analysis_results, p2t, cleaned>>
    /\ pc' = "loop"
    /\ UNCHANGED <<files, mode, i, analyzer, pdf, page_num, page_weight, reason,
                   evald, ret, results, total_cost, successful_files, failed_files,
                   raised, report_total, threadVars, modelVars, detectorVars>>

\* finally: if analyzer: analyzer.cleanup()
Finally ==
    /\ pc = "finally"
    /\ IF analyzer # "None"
         THEN Cleanup
         ELSE UNCHANGED <<analysis_results, p2t, cleaned>>
    /\ pc' = "loop"
    /\ UNCHANGED <<files, mode, i, analyzer, pdf, page_num, page_weight, reason,
                   evald, ret, results, total_cost, successful_files, failed_files,
                   raised, report_total, threadVars, modelVars, detectorVars>>

\* return results; the caller runs save_batch_report(results, ...) `if results`,
\* which adds data['cost'] over the dictionary.
SaveBatchReport ==
    /\ pc = "returned"
    /\ report_total' = IF DOMAIN results # {}
                         THEN SumDict(results, DOMAIN results)
                         ELSE report_total
    /\ pc' = "done"
    /\ UNCHANGED <<files, mode, i, analyzer, p2t, analysis_results, pdf, page_num,
                   page_weight, reason, evald, ret, results, total_cost,
                   successful_files, failed_files, cleaned, raised, threadVars, modelVars, detectorVars>>

\* ------------------------------------------------------------ get_pix2text_model, concurrent callers
\* if _global_p2t_model is None  (the check outside the lock)
FirstCheck(slot) == slot = "None"

\* Variant of SecondCheck: no second check, every caller that took the lock
\* runs the constructor.
SecondCheckMissing(slot) == TRUE

\* if _global_p2t_model is None  (the check inside the lock)
SecondCheck(slot) == slot = "None"

\* with _model_lock: the lock is taken only when free.
LockFree(lock) == lock = 0

threadFrame == <<batchVars, detectorVars>>

\* A caller enters get_pix2text_model() and makes the first check.
Call(t) ==
    /\ tpc[t] = "idle"
    /\ tcalls[t] < MaxCalls
    /\ tcalls' = [tcalls EXCEPT ![t] = @ + 1]
    /\ IF FirstCheck(_global_p2t_model)
         THEN /\ tpc' = [tpc EXCEPT ![t] = "acquire"]
              /\ tret' = [tret EXCEPT ![t] = "pending"]
         ELSE /\ tpc' = [tpc EXCEPT ![t] = "idle"]
              /\ tret' = [tret EXCEPT ![t] = _global_p2t_model]
    /\ UNCHANGED <<_model_lock, modelVars, threadFrame>>

Acquire(t) ==
    /\ tpc[t] = "acquire"
    /\ LockFree(_model_lock)
    /\ _model_lock' = t
    /\ tpc' = [tpc EXCEPT ![t] = "locked"]
    /\ UNCHANGED <<tcalls, tret, modelVars, threadFrame>>

\* Inside the lock: the second check, and Pix2Text() when the slot is still
\* empty. Success stores the model; failure stores None and re-raises.
Initialize(t) ==
    /\ tpc[t] = "locked"
    /\ IF SecondCheck(_global_p2t_model)
         THEN \E ok \in BOOLEAN :
                  /\ ctor_runs' = ctor_runs + 1
                  /\ ctor_ok' = IF ok THEN ctor_ok + 1 ELSE ctor_ok
                  /\ _global_p2t_model' = IF ok THEN "model" ELSE "None"
                  /\ tpc' = [tpc EXCEPT ![t] = IF ok THEN "release" ELSE "raise"]
         ELSE /\ tpc' = [tpc EXCEPT ![t] = "release"]
              /\ UNCHANGED modelVars
    /\ UNCHANGED <<_model_lock, tcalls, tret, threadFrame>>

\* Leaving the with block releases the lock; return _global_p2t_model.
Release(t) ==
    /\ tpc[t] = "release"
    /\ _model_lock' = 0
    /\ tpc' = [tpc EXCEPT ![t] = "idle"]
    /\ tret' = [tret EXCEPT ![t] = _global_p2t_model]
    /\ UNCHANGED <<tcalls, modelVars, threadFrame>>

\* The re-raised exception leaves the with block, which releases the lock.
Raise(t) ==
    /\ tpc[t] = "raise"
    /\ _model_lock' = 0
    /\ tpc' = [tpc EXCEPT ![t] = "idle"]
    /\ tret' = [tret EXCEPT ![t] = "raised"]
    /\ UNCHANGED <<tcalls, modelVars, threadFrame>>

\* ------------------------------------------------------------ _image_has_formulas, step by step
\* Variant of OnImageError: the image is examined outside any try block, so the
\* exception leaves the detector.
OnImageErrorPropagates == [pc |-> "done", ret |-> "raised"]

\* Where the loop goes when extract_image, Image.open/convert or
\* p2t.recognize raises for an image: the handler logs and `continue`s.
OnImageError == [pc |-> "loop", ret |-> "running"]

\* Variant of OnImageMatch: the match is logged but the loop goes on.
OnImageMatchContinues == [pc |-> "loop", ret |-> "running"]

\* Where the loop goes when a result of p2t.recognize has type 'formula' or a
\* text that satisfies _has_formulas: `return True`.
OnImageMatch == [pc |-> "done", ret |-> "True"]

imageFrame == <<batchVars, threadVars, modelVars, tableVars, pageTablesVars, textVars,
                   webVars>>

\* if self.p2t is None: return False; images = page.get_images(full=True);
\* if not images: return False
ImageEntry ==
    /\ img_pc = "entry"
    /\ IF img_p2t = "None"
         THEN img_pc' = "done" /\ img_ret' = "False"
         ELSE \E getRaises \in {FALSE, img_flaky} :
                  IF getRaises
                    THEN img_pc' = "done" /\ img_ret' = "raised"
                    ELSE IF img_list = << >>
                           THEN img_pc' = "done" /\ img_ret' = "False"
                           ELSE img_pc' = "loop" /\ img_ret' = "running"
    /\ UNCHANGED <<img_p2t, img_flaky, img_list, img_log, imageFrame>>

\* One iteration of `for img_info in images`.
ImageExamine ==
    /\ img_pc = "loop"
    /\ Len(img_log) < Len(img_list)
    /\ LET kind == img_list[Len(img_log) + 1]
           to == CASE kind = "error" -> OnImageError
                   [] kind \in {"formula_region", "formula_text"} -> OnImageMatch
                   [] OTHER -> [pc |-> "loop", ret |-> "running"]
       IN  /\ img_log' = Append(img_log,
                             CASE kind = "error" -> "skipped"
                               [] kind \in {"formula_region", "formula_text"} -> "match"
                               [] OTHER -> "no match")
           /\ img_pc' = to.pc
           /\ img_ret' = to.ret
    /\ UNCHANGED <<img_p2t, img_flaky, img_list, imageFrame>>

\* The loop fell off its end: return False.
ImageExhausted ==
    /\ img_pc = "loop"
    /\ Len(img_log) = Len(img_list)
    /\ img_pc' = "done"
    /\ img_ret' = "False"
    /\ UNCHANGED <<img_p2t, img_flaky, img_list, img_log, imageFrame>>

\* ------------------------------------------------------------ _is_valid_table
\* A grid of pdfplumber's extract_tables() is a list of rows, a row a list of
\* cells, a cell None or a str. A str is modelled as the sequence of its code
\* points; None as the one value below, which is no string (no character has
\* code point -1). Rows of one grid have the same length.
None == <<-1>>

\* The strings the explored grids are filled from.
S_EMPTY == << >>                       \* ""
S_SPACE == <<32>>                      \* " "
S_NOTE  == <<78, 111, 116, 101>>       \* "Note"
S_NO    == <<78, 111>>                 \* "No"
S_SEVEN == <<55>>                      \* "7"
S_TYPE  == <<1058, 1080, 1087>>        \* "Тип"

CellTexts == {S_EMPTY, S_SPACE, S_NOTE, S_NO, S_SEVEN, S_TYPE}

\* Cells of more than 50 and of more than 200 characters ("x" * 101 and
\* "y" * 203): the lengths criterion 7 and rule 4 compare against.
S_LONG   == [k \in 1..101 |-> 120]
S_LONGER == [k \in 1..203 |-> 121]

LongTexts == {S_TYPE, S_LONG, S_LONGER}

\* A page of running text that extract_tables() returned as a grid of three
\* rows and two columns, one sentence of four words per cell.
S_PROSE1 == <<119, 101, 32, 115, 97, 119, 32, 105, 116, 32, 103, 111>>   \* "we saw it go"
S_PROSE2 == <<104, 101, 32, 100, 105, 100, 32, 110, 111, 116, 32, 114, 117, 110>>   \* "he did not run"
S_PROSE3 == <<115, 104, 101, 32, 99, 97, 110, 32, 115, 101, 101, 32, 117, 115>>   \* "she can see us"
S_PROSE4 == <<105, 116, 32, 119, 97, 115, 32, 115, 111, 32, 102, 97, 114>>   \* "it was so far"
S_PROSE5 == <<116, 104, 101, 121, 32, 97, 114, 101, 32, 97, 116, 32, 115, 101, 97>>   \* "they are at sea"
S_PROSE6 == <<121, 111, 117, 32, 109, 97, 121, 32, 103, 111, 32, 111, 110>>   \* "you may go on"

ProseGrid ==
    << <<S_PROSE1, S_PROSE2>>, <<S_PROSE3, S_PROSE4>>, <<S_PROSE5, S_PROSE6>> >>

\* The shapes (rows, columns) of the explored grids: at most MaxCells cells,
\* the empty list and rows of no cells included.
Shapes == {x \in (0..MaxCells) \X (0..MaxCells) : x[1] * x[2] <= MaxCells}

\* The grid of r rows and c columns that holds f at the positions of its
\* domain and None elsewhere.
Grid(r, c, f) ==
    [a \in 1..r |-> [b \in 1..c |-> IF <<a, b>> \in DOMAIN f THEN f[<<a, b>>] ELSE None]]

\* The grid t with the cells at the positions of f's domain replaced by f's.
Overlay(t, f) ==
    [a \in 1..Len(t) |->
        [b \in 1..Len(t[a]) |-> IF <<a, b>> \in DOMAIN f THEN f[<<a, b>>] ELSE t[a][b]]]

\* bool(cell): a cell that is neither None nor "".
Truthy(cell) == cell # None /\ cell # << >>

\* The characters str.strip() removes (those the explored strings can hold
\* are among them).
IsSpace(ch) == ch \in {9, 10, 11, 12, 13, 28, 29, 30, 31, 32, 133, 160}

\* char.isdigit() on the characters of the explored strings.
IsDigit(ch) == ch \in 48..57

RECURSIVE LStrip(_)
LStrip(s) == IF s # << >> /\ IsSpace(Head(s)) THEN LStrip(Tail(s)) ELSE s

RECURSIVE RStrip(_)
RStrip(s) ==
    IF s # << >> /\ IsSpace(s[Len(s)]) THEN RStrip(SubSeq(s, 1, Len(s) - 1)) ELSE s

\* cell.strip()
Strip(s) == RStrip(LStrip(s))

\* `cell and cell.strip()`
Filled(cell) == Truthy(cell) /\ Strip(cell) # << >>

\* a in b, for two str
IsSubstring(a, b) ==
    \E k \in 0..(Len(b) - Len(a)) : \A j \in 1..Len(a) : b[k + j] = a[j]

\* str.lower(), character by character: Latin and Cyrillic capitals.
Lower(s) ==
    [k \in 1..Len(s) |->
        IF s[k] \in 65..90 \/ s[k] \in 1040..1071 THEN s[k] + 32
        ELSE IF s[k] \in 1024..1039 THEN s[k] + 80
        ELSE s[k]]

\* `for row in table: for cell in row`: the cells in row order.
RECURSIVE Flat(_)
Flat(t) == IF t = << >> THEN << >> ELSE Head(t) \o Flat(Tail(t))

\* How many cells of the list s are filled.
CountFilled(s) == Cardinality({k \in 1..Len(s) : Filled(s[k])})

\* sum(...) of a list of numbers.
RECURSIVE Sum(_)
Sum(ns) == IF ns = << >> THEN 0 ELSE Head(ns) + Sum(Tail(ns))

\* The lengths of the strings of a list.
Lengths(s) == [k \in 1..Len(s) |-> Len(s[k])]

rows(t) == Len(t)
cols(t) == IF t[1] # << >> THEN Len(t[1]) ELSE 0

non_empty_cells(t) == CountFilled(Flat(t))
total_cells(t) == Len(Flat(t))
unique_values(t) == {Strip(Flat(t)[k]) : k \in {j \in 1..Len(Flat(t)) : Filled(Flat(t)[j])}}

\* Columns in which no row has a filled cell.
empty_columns(t) ==
    Cardinality({c \in 1..cols(t) :
                    \A r \in 1..Len(t) : ~(c <= Len(t[r]) /\ Filled(t[r][c]))})

HasDigit(cell) == Truthy(cell) /\ \E k \in 1..Len(cell) : IsDigit(cell[k])
numeric_cells(t) == Cardinality({k \in 1..Len(Flat(t)) : HasDigit(Flat(t)[k])})

\* " ".join(str(cell) for row in table for cell in row if cell)
RECURSIVE Join(_)
Join(s) ==
    IF s = << >> THEN << >>
    ELSE IF Len(s) = 1 THEN Head(s)
    ELSE Head(s) \o <<32>> \o Join(Tail(s))

all_text(t) == Join(SelectSeq(Flat(t), Truthy))

tabular_words ==
    {
      <<8470>>,   \* №
      <<1085, 1086, 1084, 1077, 1088>>,   \* номер
      <<1082, 1086, 1083, 1080, 1095, 1077, 1089, 1090, 1074, 1086>>,   \* количество
      <<1089, 1091, 1084, 1084, 1072>>,   \* сумма
      <<1080, 1090, 1086, 1075, 1086>>,   \* итого
      <<1074, 1089, 1077, 1075, 1086>>,   \* всего
      <<1090, 1080, 1087>>,   \* тип
      <<1074, 1080, 1076>>,   \* вид
      <<1085, 1072, 1079, 1074, 1072, 1085, 1080, 1077>>,   \* название
      <<1085, 1072, 1080, 1084, 1077, 1085, 1086, 1074, 1072, 1085, 1080, 1077>>,   \* наименование
      <<1093, 1072, 1088, 1072, 1082, 1090, 1077, 1088, 1080, 1089, 1090, 1080, 1082, 1072>>,   \* характеристика
      <<1086, 1087, 1080, 1089, 1072, 1085, 1080, 1077>>,   \* описание
      <<1079, 1085, 1072, 1095, 1077, 1085, 1080, 1077>>,   \* значение
      <<1087, 1072, 1088, 1072, 1084, 1077, 1090, 1088>>,   \* параметр
      <<1082, 1088, 1080, 1090, 1077, 1088, 1080, 1081>>,   \* критерий
      <<1092, 1072, 1082, 1090, 1086, 1088>>,   \* фактор
      <<1072, 1089, 1087, 1077, 1082, 1090>>,   \* аспект
      <<1074, 1083, 1080, 1103, 1085, 1080, 1077>>,   \* влияние
      <<1074, 1086, 1079, 1076, 1077, 1081, 1089, 1090, 1074, 1080, 1077>>,   \* воздействие
      <<1082, 1072, 1090, 1077, 1075, 1086, 1088, 1080, 1103>>,   \* категория
      <<1075, 1088, 1091, 1087, 1087, 1072>>,   \* группа
      <<1087, 1086, 1082, 1072, 1079, 1072, 1090, 1077, 1083, 1100>>,   \* показатель
      <<1080, 1085, 1076, 1080, 1082, 1072, 1090, 1086, 1088>>,   \* индикатор
      <<1084, 1077, 1090, 1086, 1076>>,   \* метод
      <<1089, 1087, 1086, 1089, 1086, 1073>>,   \* способ
      <<1092, 1086, 1088, 1084, 1072>>    \* форма
    }

\* any(word in s for word in words); the search is only made in a text that
\* holds the first character of some word.
AnyWordIn(words, s) ==
    /\ \E k \in 1..Len(s) : s[k] \in {w[1] : w \in words}
    /\ \E w \in words : IsSubstring(w, s)

\* len(s.split()): the maximal runs of characters that are not whitespace.
WordCount(s) ==
    Cardinality({k \in 1..Len(s) : ~IsSpace(s[k]) /\ (k = 1 \/ IsSpace(s[k - 1]))})

RECURSIVE WordsOfSet(_)
WordsOfSet(S) ==
    IF S = {} THEN 0
    ELSE LET u == CHOOSE x \in S : TRUE IN WordCount(u) + WordsOfSet(S \ {u})

\* Criterion 6: tabular vocabulary, at least 3 numeric cells, repeated values
\* (len(unique_values) <= rows * 0.7).
table_indicators(t) ==
    LET lowered == Lower(all_text(t))
    IN  (IF AnyWordIn(tabular_words, lowered) THEN 1 ELSE 0)
      + (IF numeric_cells(t) >= 3 THEN 1 ELSE 0)
      + (IF 10 * Cardinality(unique_values(t)) <= 7 * rows(t) THEN 1 ELSE 0)

\* Criterion 7: every value unique in more than 5 cells with more than 3 words
\* per cell; an empty column next to cells longer than 50 characters on average.
text_indicators(t) ==
    (IF /\ Cardinality(unique_values(t)) = non_empty_cells(t)
        /\ non_empty_cells(t) > 5
        /\ WordsOfSet(unique_values(t)) > 3 * Cardinality(unique_values(t))
       THEN 1 ELSE 0)
  + (IF /\ empty_columns(t) > 0
        /\ non_empty_cells(t) > 0
        /\ Sum(Lengths(SelectSeq(Flat(t), Truthy))) > 50 * non_empty_cells(t)
       THEN 1 ELSE 0)

\* Criterion 1: `not table`, rows < 2 or cols < 2.
TooSmall(t) == t = << >> \/ rows(t) < 2 \/ cols(t) < 2

\* Variant of DuplicateHeader: only identical cells count, a cell contained in
\* the other does not.
DuplicateHeaderIdenticalOnly(t) ==
    /\ Truthy(t[1][1]) /\ Truthy(t[1][2])
    /\ t[1][1] = t[1][2]

\* Criterion 2: the first two cells of the first row are both truthy and equal,
\* or one is contained in the other.
DuplicateHeader(t) ==
    /\ Truthy(t[1][1]) /\ Truthy(t[1][2])
    /\ \/ t[1][1] = t[1][2]
       \/ IsSubstring(t[1][1], t[1][2])
       \/ IsSubstring(t[1][2], t[1][1])

\* Variant of SparseCells: the threshold is a quarter of the cells.
SparseCellsBelowQuarter(t) ==
    total_cells(t) > 0 /\ 4 * non_empty_cells(t) < total_cells(t)

\* Criterion 3: total_cells > 0 and non_empty_cells / total_cells < 0.5.
SparseCells(t) ==
    total_cells(t) > 0 /\ 2 * non_empty_cells(t) < total_cells(t)

\* Variant of TooManyEmptyColumns: more than half of the columns, as the
\* comment above the test says.
MoreThanHalfColumnsEmpty(t) == 2 * empty_columns(t) > cols(t)

\* Criterion 4: empty_columns >= cols / 2.
TooManyEmptyColumns(t) == 2 * empty_columns(t) >= cols(t)

\* Criterion 8: with x the filled cells per row, n rows and S their sum,
\* variance / avg_filled > 2, i.e. (n * sum(x^2) - S^2) / (n * S) > 2.
filled_cells_per_row(t) == [r \in 1..Len(t) |-> CountFilled(t[r])]
Uneven(t) ==
    LET x == filled_cells_per_row(t)
        n == Len(x)
        S == Sum(x)
        Q == Sum([r \in 1..n |-> x[r] * x[r]])
    IN  S > 0 /\ n * Q - S * S > 2 * n * S

\* Rule 4's test: over the rows whose first two cells are truthy, the second
\* column is on average more than twice as long as the first, and the first is
\* shorter than 100 on average.
BothTruthy(row) == Len(row) >= 2 /\ Truthy(row[1]) /\ Truthy(row[2])
TermDescription(t) ==
    LET pairs == SelectSeq(t, BothTruthy)
        first_col_lengths == [k \in 1..Len(pairs) |-> Len(pairs[k][1])]
        second_col_lengths == [k \in 1..Len(pairs) |-> Len(pairs[k][2])]
    IN  /\ pairs # << >>
        /\ Sum(second_col_lengths) > 2 * Sum(first_col_lengths)
        /\ Sum(first_col_lengths) < 100 * Len(pairs)

\* Variant of FinalDecision: the numeric rule is tried before the text-only
\* rule.
FinalDecisionNumericFirst(t) ==
    LET tab == table_indicators(t)
        txt == text_indicators(t)
    IN  IF Uneven(t) THEN FALSE
        ELSE IF tab >= 2 /\ txt = 0 THEN TRUE
        ELSE IF numeric_cells(t) > 0 /\ empty_columns(t) = 0 THEN TRUE
        ELSE IF tab = 0 /\ txt > 0 THEN FALSE
        ELSE IF /\ tab >= 1 /\ empty_columns(t) = 0
                /\ rows(t) >= 2 /\ cols(t) = 2
          THEN TermDescription(t)
        ELSE FALSE

\* Criterion 8 and the final decision (rules 1 to 4, else False).
FinalDecision(t) ==
    LET tab == table_indicators(t)
        txt == text_indicators(t)
    IN  IF Uneven(t) THEN FALSE
        ELSE IF tab >= 2 /\ txt = 0 THEN TRUE
        ELSE IF tab = 0 /\ txt > 0 THEN FALSE
        ELSE IF numeric_cells(t) > 0 /\ empty_columns(t) = 0 THEN TRUE
        ELSE IF /\ tab >= 1 /\ empty_columns(t) = 0
                /\ rows(t) >= 2 /\ cols(t) = 2
          THEN TermDescription(t)
        ELSE FALSE

\* _is_valid_table(table) as one function.
_is_valid_table(t) ==
    IF TooSmall(t) THEN FALSE
    ELSE IF DuplicateHeader(t) THEN FALSE
    ELSE IF SparseCells(t) THEN FALSE
    ELSE IF TooManyEmptyColumns(t) THEN FALSE
    ELSE FinalDecision(t)

tableFrame == <<batchVars, threadVars, modelVars, imageVars, pageTablesVars, textVars,
                   webVars>>

\* `return False` of a test that rejects the grid.
Reject(next) == [pc |-> "done", ret |-> "False"]

\* A test that does not reject: control falls to the test after it.
Pass(next) == [pc |-> next, ret |-> "running"]

\* if not table or len(table) == 0; if rows < 2 or cols < 2: return False
TableShape ==
    /\ tab_pc = "shape"
    /\ LET to == IF TooSmall(table) THEN Reject("duplicate") ELSE Pass("duplicate")
       IN  tab_pc' = to.pc /\ tab_ret' = to.ret
    /\ UNCHANGED <<table, tableFrame>>

\* if first_cell and second_cell: equal or contained: return False
TableDuplicate ==
    /\ tab_pc = "duplicate"
    /\ LET to == IF DuplicateHeader(table) THEN Reject("fill") ELSE Pass("fill")
       IN  tab_pc' = to.pc /\ tab_ret' = to.ret
    /\ UNCHANGED <<table, tableFrame>>

\* if total_cells > 0 and (non_empty_cells / total_cells) < 0.5: return False
TableFill ==
    /\ tab_pc = "fill"
    /\ LET to == IF SparseCells(table) THEN Reject("columns") ELSE Pass("columns")
       IN  tab_pc' = to.pc /\ tab_ret' = to.ret
    /\ UNCHANGED <<table, tableFrame>>

\* if empty_columns >= cols / 2: return False
TableColumns ==
    /\ tab_pc = "columns"
    /\ LET to == IF TooManyEmptyColumns(table) THEN Reject("decide") ELSE Pass("decide")
       IN  tab_pc' = to.pc /\ tab_ret' = to.ret
    /\ UNCHANGED <<table, tableFrame>>

\* Criteria 5 to 8 and the final rules.
TableDecide ==
    /\ tab_pc = "decide"
    /\ tab_pc' = "done"
    /\ tab_ret' = IF FinalDecision(table) THEN "True" ELSE "False"
    /\ UNCHANGED <<table, tableFrame>>

\* ------------------------------------------------------------ _has_valid_tables
\* Grids extract_tables() may return: two that _is_valid_table accepts (a
\* numeric one, a term/description one) and four that it rejects.
G_NUMERIC == << <<S_NO, S_SEVEN>>, <<S_TYPE, S_SEVEN>> >>
G_TERMS   == << <<S_SPACE, S_TYPE>>, <<S_NO, None>> >>
G_ONE_ROW == << <<S_NO, S_SEVEN>> >>
G_SPARSE  == << <<S_NO, None>>, <<None, None>> >>
G_NO_ROWS == << >>

SampleGrids == {G_NUMERIC, G_TERMS, G_ONE_ROW, G_SPARSE, G_NO_ROWS, ProseGrid}

\* The lists of at most MaxTables grids.
TableLists == UNION {[1..n -> SampleGrids] : n \in 0..MaxTables}

pageTablesFrame == <<batchVars, threadVars, modelVars, imageVars, tableVars, textVars,
                   webVars>>

\* Variant of OnGrid: a grid that is not valid ends the search.
OnGridFirstDecides(valid, k) ==
    IF valid THEN [pc |-> "done", ret |-> "True", k |-> k]
    ELSE [pc |-> "done", ret |-> "False", k |-> k]

\* One turn of `for table in tables`: return True on a valid grid, else go on.
OnGrid(valid, k) ==
    IF valid THEN [pc |-> "done", ret |-> "True", k |-> k]
    ELSE [pc |-> "loop", ret |-> "running", k |-> k]

\* tables = plumber_page.extract_tables(); a raise is caught by the except
\* clause, which returns False; so does `if not tables`.
TablesExtract ==
    /\ hvt_pc = "extract"
    /\ IF hvt_raises \/ tables = << >>
         THEN hvt_pc' = "done" /\ hvt_ret' = "False"
         ELSE hvt_pc' = "loop" /\ hvt_ret' = "running"
    /\ UNCHANGED <<tables, hvt_raises, hvt_k, pageTablesFrame>>

\* if self._is_valid_table(table, page_text): return True
TablesExamine ==
    /\ hvt_pc = "loop"
    /\ hvt_k < Len(tables)
    /\ LET to == OnGrid(_is_valid_table(tables[hvt_k + 1]), hvt_k + 1)
       IN  hvt_pc' = to.pc /\ hvt_ret' = to.ret /\ hvt_k' = to.k
    /\ UNCHANGED <<tables, hvt_raises, pageTablesFrame>>

\* The loop fell off its end: return False.
TablesExhausted ==
    /\ hvt_pc = "loop"
    /\ hvt_k = Len(tables)
    /\ hvt_pc' = "done"
    /\ hvt_ret' = "False"
    /\ UNCHANGED <<tables, hvt_raises, hvt_k, pageTablesFrame>>

\* ------------------------------------------------------------ _has_footnotes
\* A text is the sequence of its code points. The characters the explored
\* texts are made of: a Cyrillic letter, two digits, a full stop, a space and
\* a line feed.
FootnoteChars == {1072, 49, 56, 46, 32, 10}

\* The texts of at most MaxText characters.
FootnoteTexts == UNION {[1..n -> FootnoteChars] : n \in 0..MaxText}

\* [А-Яа-яё], and the same class under re.IGNORECASE (which adds Ё).
IsCyrillic(ch) == ch \in 1040..1103 \/ ch = 1105
IsCyrillicIgnoreCase(ch) == IsCyrillic(ch) \/ ch = 1025

\* [,\.;:]
IsPunctuation(ch) == ch \in {44, 46, 59, 58}

\* The index after the longest run of letters / digits / whitespace that
\* starts at p (p itself when there is none): what a greedy +, * consumes.
RECURSIVE LettersEnd(_, _)
LettersEnd(s, p) ==
    IF p <= Len(s) /\ IsCyrillicIgnoreCase(s[p]) THEN LettersEnd(s, p + 1) ELSE p

RECURSIVE DigitsEnd(_, _)
DigitsEnd(s, p) == IF p <= Len(s) /\ IsDigit(s[p]) THEN DigitsEnd(s, p + 1) ELSE p

RECURSIVE SpacesEnd(_, _)
SpacesEnd(s, p) == IF p <= Len(s) /\ IsSpace(s[p]) THEN SpacesEnd(s, p + 1) ELSE p

\* No match at a position.
NoMatch == [end |-> 0, group |-> << >>]

\* pattern1 = [А-Яа-яё]+(\d+) tried at position p: the letters, then the
\* digits. Giving letters back cannot help, a letter is no digit.
Match1(s, p) ==
    LET q == LettersEnd(s, p)
        r == DigitsEnd(s, q)
    IN  IF q > p /\ r > q THEN [end |-> r, group |-> SubSeq(s, q, r - 1)] ELSE NoMatch

\* pattern2 = [а-яё][,\.;:]\s*(\d+) tried at position p.
Match2(s, p) ==
    IF p + 1 <= Len(s) /\ IsCyrillicIgnoreCase(s[p]) /\ IsPunctuation(s[p + 1])
    THEN LET q == SpacesEnd(s, p + 2)
             r == DigitsEnd(s, q)
         IN  IF r > q THEN [end |-> r, group |-> SubSeq(s, q, r - 1)] ELSE NoMatch
    ELSE NoMatch

\* pattern.finditer(text) from position p on: the leftmost match, then the
\* matches after its end. The value is the set of the matches' group(1).
RECURSIVE FindAll1(_, _)
FindAll1(s, p) ==
    IF p > Len(s) THEN {}
    ELSE LET m == Match1(s, p)
         IN  IF m.end > 0 THEN {m.group} \cup FindAll1(s, m.end) ELSE FindAll1(s, p + 1)

RECURSIVE FindAll2(_, _)
FindAll2(s, p) ==
    IF p > Len(s) THEN {}
    ELSE LET m == Match2(s, p)
         IN  IF m.end > 0 THEN {m.group} \cup FindAll2(s, m.end) ELSE FindAll2(s, p + 1)

\* footnote_num.startswith(('18', '19', '20'))
YearPrefix(n) ==
    Len(n) >= 2 /\ SubSeq(n, 1, 2) \in {<<49, 56>>, <<49, 57>>, <<50, 48>>}

\* Variant of Keep: only the year test, without the length test.
KeepUnlessYear(n) == ~(Len(n) = 4 /\ YearPrefix(n))

\* len(footnote_num) <= 2 and not (len(footnote_num) == 4 and startswith(...))
Keep(n) == Len(n) <= 2 /\ ~(Len(n) = 4 /\ YearPrefix(n))

\* text.split('\n')
RECURSIVE Split(_)
Split(s) ==
    IF \A k \in 1..Len(s) : s[k] # 10 THEN <<s>>
    ELSE LET k == CHOOSE j \in 1..Len(s) : s[j] = 10 /\ \A h \in 1..(j - 1) : s[h] # 10
         IN  <<SubSeq(s, 1, k - 1)>> \o Split(SubSeq(s, k + 1, Len(s)))

\* re.match(r'^(\d+)\s+[А-Яа-яё]', line): group(1), or NoMatch's.
DefinitionMatch(line) ==
    LET r == DigitsEnd(line, 1)
        q == SpacesEnd(line, r)
    IN  IF r > 1 /\ q > r /\ q <= Len(line) /\ IsCyrillic(line[q])
        THEN [end |-> q + 1, group |-> SubSeq(line, 1, r - 1)]
        ELSE NoMatch

\* The numbers of the definition lines of a text.
Definitions(s) ==
    LET lines == Split(s)
    IN  {DefinitionMatch(Strip(lines[k])).group :
            k \in {j \in 1..Len(lines) : DefinitionMatch(Strip(lines[j])).end > 0}}

\* Variant of Paired: a reference or a definition alone is enough.
PairedEither(refs, defs) == (refs \cup defs) # {}

\* len(text_footnote_refs.intersection(footnote_definitions)) > 0
Paired(refs, defs) == (refs \cap defs) # {}

footnoteFrame == <<batchVars, threadVars, modelVars, imageVars, tableVars, pageTablesVars,
                   formulaVars, webVars>>

\* The two finditer loops that fill text_footnote_refs.
FootnoteReferences ==
    /\ fn_pc = "refs"
    /\ text_footnote_refs' =
           {n \in FindAll1(text, 1) : Keep(n)} \cup {n \in FindAll2(text, 1) : Keep(n)}
    /\ fn_pc' = "defs"
    /\ UNCHANGED <<text, footnote_definitions, fn_ret, footnoteFrame>>

\* The loop over the lines that fills footnote_definitions.
FootnoteDefinitions ==
    /\ fn_pc = "defs"
    /\ footnote_definitions' = Definitions(text)
    /\ fn_pc' = "pair"
    /\ UNCHANGED <<text, text_footnote_refs, fn_ret, footnoteFrame>>

\* return len(matched_footnotes) > 0
FootnotePair ==
    /\ fn_pc = "pair"
    /\ fn_ret' = IF Paired(text_footnote_refs, footnote_definitions) THEN "True" ELSE "False"
    /\ fn_pc' = "done"
    /\ UNCHANGED <<text, text_footnote_refs, footnote_definitions, footnoteFrame>>

\* ------------------------------------------------------------ _has_formulas
\* The characters of the first family of explored texts: A ( ) ^ 2 - line
\* feed and a Cyrillic letter.
FormulaChars == {65, 40, 41, 94, 50, 45, 10, 1082}

\* The pieces the second family of explored texts is put together from.
T_CODE    == <<65, 66, 67, 45, 49, 50, 51>>   \* "ABC-123"
T_WORD    == <<1082, 1072, 1090, 1072, 1083, 1086, 1075>>   \* "каталог"
T_SPACE   == <<32>>   \* " "
T_NEWLINE == <<10>>   \* line feed
T_CALL    == <<117, 40, 120, 44, 116, 41>>   \* "u(x,t)"
T_POWER   == <<69, 61, 109, 99, 94, 50>>   \* "E=mc^2"
T_PARENS  == <<40, 41>>   \* "()"
T_FT      == <<102, 32, 116>>   \* "f t"
T_INDEX   == <<120, 95, 49>>   \* "x_1"
T_PH      == <<112, 72, 61, 54>>   \* "pH=6"
T_ALPHA   == <<945>>   \* "α"
T_SUM     == <<8721>>   \* "∑"
T_INLINE  == <<36, 97, 43, 98, 36>>   \* "$a+b$"
T_BEGIN   == <<92, 98, 101, 103, 105, 110, 123, 101, 113, 117, 97, 116, 105, 111, 110, 125>>   \* "\begin{equation}"
T_RU_PH   == <<1088, 1053, 32, 61, 32, 48, 44, 53>>   \* "рН = 0,5"
T_BRACED  == <<120, 94, 123, 110, 43, 49, 125>>   \* "x^{n+1}"

FormulaTokens ==
    {T_CODE, T_WORD, T_SPACE, T_NEWLINE, T_CALL, T_POWER, T_PARENS, T_FT,
     T_INDEX, T_PH, T_ALPHA, T_SUM, T_INLINE, T_BEGIN, T_RU_PH, T_BRACED}

\* The pieces of a list, one after the other.
RECURSIVE Concat(_)
Concat(ts) == IF ts = << >> THEN << >> ELSE Head(ts) \o Concat(Tail(ts))

\* The explored texts: every text of at most MaxFormulaText characters, and
\* every text of at most MaxTokens pieces.
FormulaTexts ==
    UNION {[1..n -> FormulaChars] : n \in 0..MaxFormulaText}
    \cup {Concat(ts) : ts \in UNION {[1..n -> FormulaTokens] : n \in 0..MaxTokens}}

\* [a-zA-Z], [a-zA-Z0-9], [a-zA-Z0-9,\s], [a-zA-Z0-9+\-*/=\(\)\s] and \w (on
\* the characters of the explored texts: ASCII, Greek and Cyrillic letters).
IsLatin(ch) == ch \in 65..90 \/ ch \in 97..122
IsAlnum(ch) == IsLatin(ch) \/ ch \in 48..57
IsArgChar(ch) == IsAlnum(ch) \/ ch = 44 \/ IsSpace(ch)
IsInlineChar(ch) == IsAlnum(ch) \/ ch \in {43, 45, 42, 47, 61, 40, 41} \/ IsSpace(ch)
IsWordChar(ch) ==
    IsAlnum(ch) \/ ch = 95 \/ ch \in 913..937 \/ ch \in 945..969 \/ ch \in 1024..1119

\* The index after the longest run of argument / inline characters from p.
RECURSIVE ArgsEnd(_, _)
ArgsEnd(s, p) == IF p <= Len(s) /\ IsArgChar(s[p]) THEN ArgsEnd(s, p + 1) ELSE p

RECURSIVE InlineEnd(_, _)
InlineEnd(s, p) == IF p <= Len(s) /\ IsInlineChar(s[p]) THEN InlineEnd(s, p + 1) ELSE p

\* s holds c at index p.
At(s, p, c) == p >= 1 /\ p <= Len(s) /\ s[p] = c

\* FORMULA_PATTERNS[0]: one of the mathematical symbols.
MathSymbolAt(s, p) ==
    s[p] \in {8721, 8747, 8719, 8730, 177, 215, 247, 8804, 8805, 8800, 8734, 8706, 8711}

\* FORMULA_PATTERNS[1]: [α-ωΑ-Ω]
GreekAt(s, p) == s[p] \in 945..969 \/ s[p] \in 913..937

\* FORMULA_PATTERNS[2]: $, two or more inline characters, $. The run ends
\* before a character outside the class, which has to be the closing $.
InlineLatexAt(s, p) ==
    /\ s[p] = 36
    /\ LET q == InlineEnd(s, p + 1) IN q >= p + 3 /\ At(s, q, 36)

\* FORMULA_PATTERNS[3]: the literal \begin{equation}
BeginEquationAt(s, p) ==
    /\ p + Len(T_BEGIN) - 1 <= Len(s)
    /\ SubSeq(s, p, p + Len(T_BEGIN) - 1) = T_BEGIN

\* FORMULA_PATTERNS[4]: [a-zA-Z]+\([a-zA-Z0-9,\s]+\), p the letter before the
\* parenthesis (a search finds a match exactly when there is such a letter).
FunctionCallAt(s, p) ==
    /\ IsLatin(s[p]) /\ At(s, p + 1, 40)
    /\ LET q == ArgsEnd(s, p + 2) IN q > p + 2 /\ At(s, q, 41)

\* FORMULA_PATTERNS[5]: [a-zA-Z]\([a-zA-Z0-9,\s]*\)
SimpleFunctionAt(s, p) ==
    /\ IsLatin(s[p]) /\ At(s, p + 1, 40)
    /\ LET q == ArgsEnd(s, p + 2) IN At(s, q, 41)

\* \b between index p and p + 1, one of them a word character.
WordBoundaryAfter(s, p) ==
    (p >= 1 /\ p <= Len(s) /\ IsWordChar(s[p])) # (p + 1 <= Len(s) /\ IsWordChar(s[p + 1]))

\* Variant of SubscriptAt: a hyphen separates as an underscore does.
SubscriptOrHyphenAt(s, p) ==
    /\ WordBoundaryAfter(s, p - 1)
    /\ \E a \in 1..3 :
           /\ \A k \in p..(p + a - 1) : k <= Len(s) /\ IsLatin(s[k])
           /\ (At(s, p + a, 95) \/ At(s, p + a, 45))
           /\ \E b \in 1..3 :
                  /\ \A k \in (p + a + 1)..(p + a + b) : k <= Len(s) /\ IsAlnum(s[k])
                  /\ WordBoundaryAfter(s, p + a + b)

\* FORMULA_PATTERNS[6]: \b[a-zA-Z]{1,3}_[a-zA-Z0-9]{1,3}\b
SubscriptAt(s, p) ==
    /\ WordBoundaryAfter(s, p - 1)
    /\ \E a \in 1..3 :
           /\ \A k \in p..(p + a - 1) : k <= Len(s) /\ IsLatin(s[k])
           /\ At(s, p + a, 95)
           /\ \E b \in 1..3 :
                  /\ \A k \in (p + a + 1)..(p + a + b) : k <= Len(s) /\ IsAlnum(s[k])
                  /\ WordBoundaryAfter(s, p + a + b)

\* Variant of ExponentAt: only the braced form counts.
ExponentBracedAt(s, p) ==
    /\ s[p] = 94
    /\ At(s, p + 1, 123) /\ p + 2 <= Len(s) /\ s[p + 2] # 125
    /\ \E q \in (p + 3)..Len(s) : s[q] = 125

\* FORMULA_PATTERNS[7]: \^[0-9]+|\^{[^}]+}
ExponentAt(s, p) ==
    /\ s[p] = 94
    /\ \/ p + 1 <= Len(s) /\ s[p + 1] \in 48..57
       \/ /\ At(s, p + 1, 123) /\ p + 2 <= Len(s) /\ s[p + 2] # 125
          /\ \E q \in (p + 3)..Len(s) : s[q] = 125

\* FORMULA_PATTERNS[8] and [9]: the two letters (Cyrillic рН, Latin pH), \s*,
\* =, \s*, a digit; the optional groups after it do not decide a search.
PhAt(s, p, letters) ==
    /\ p + 1 <= Len(s) /\ SubSeq(s, p, p + 1) = letters
    /\ LET q == SpacesEnd(s, p + 2)
           r == SpacesEnd(s, q + 1)
       IN  At(s, q, 61) /\ r <= Len(s) /\ s[r] \in 48..57

\* pattern.search(s) for some pattern of FORMULA_PATTERNS.
PatternFound(s) ==
    \E p \in 1..Len(s) :
        \/ MathSymbolAt(s, p) \/ GreekAt(s, p) \/ InlineLatexAt(s, p)
        \/ BeginEquationAt(s, p) \/ FunctionCallAt(s, p) \/ SimpleFunctionAt(s, p)
        \/ SubscriptAt(s, p) \/ ExponentAt(s, p)
        \/ PhAt(s, p, <<1088, 1053>>) \/ PhAt(s, p, <<112, 72>>)

\* re.sub(r'\s+', ' ', s): every run of whitespace becomes one space.
RECURSIVE Collapse(_)
Collapse(s) ==
    IF s = << >> THEN << >>
    ELSE IF IsSpace(Head(s)) THEN <<32>> \o Collapse(SubSeq(s, SpacesEnd(s, 1), Len(s)))
    ELSE <<Head(s)>> \o Collapse(Tail(s))

\* cleaned_text = re.sub(r'\s+', ' ', text.strip())
cleaned_text(s) == Collapse(Strip(s))

\* multiline_func_pattern at p: (, argument characters, ), whitespace with a
\* line feed in it, a Latin letter, whitespace.
MultilineFunctionAt(s, p) ==
    /\ s[p] = 40
    /\ LET q == ArgsEnd(s, p + 1)
           r == SpacesEnd(s, q + 1)
       IN  /\ At(s, q, 41)
           /\ \E k \in (q + 1)..(r - 1) : s[k] = 10
           /\ r <= Len(s) /\ IsLatin(s[r])
           /\ r + 1 <= Len(s) /\ IsSpace(s[r + 1])

formulaFrame == <<batchVars, threadVars, modelVars, imageVars, tableVars, pageTablesVars,
                  footnoteVars, webVars>>

\* for pattern in FORMULA_PATTERNS: search text and cleaned_text.
FormulaPatterns ==
    /\ fm_pc = "patterns"
    /\ IF PatternFound(text) \/ PatternFound(cleaned_text(text))
         THEN fm_pc' = "done" /\ fm_ret' = "True"
         ELSE fm_pc' = "multiline" /\ fm_ret' = "running"
    /\ UNCHANGED <<text, formulaFrame>>

\* if multiline_func_pattern.search(text): return True; return False
FormulaMultiline ==
    /\ fm_pc = "multiline"
    /\ fm_pc' = "done"
    /\ fm_ret' = IF \E p \in 1..Len(text) : MultilineFunctionAt(text, p)
                    THEN "True" ELSE "False"
    /\ UNCHANGED <<text, formulaFrame>>

\* ------------------------------------------------------------ web front end
\* The /process requests that arrive; Flask's server handles each in a thread
\* of its own (app.run with the default threaded=True).
Requests == 1..NumRequests

webFrame == <<batchVars, threadVars, modelVars, imageVars, tableVars, pageTablesVars,
              textVars>>

\* process_files: if processing_status['active']: return the error
\* 'Обработка уже выполняется'; a request without files is turned away too.
CheckActive(r) ==
    /\ req_pc[r] = "idle"
    /\ \E hasFiles \in BOOLEAN :
           req_pc' = [req_pc EXCEPT ![r] =
                         IF processing_status.active THEN "rejected"
                         ELSE IF hasFiles THEN "saving" ELSE "no_files"]
    /\ UNCHANGED <<processing_status, worker_pc, webFrame>>

\* The uploads are saved to a temporary directory; a raise there is answered
\* by the except clause with an error and no worker is started.
SaveUploads(r) ==
    /\ req_pc[r] = "saving"
    /\ \E saved \in BOOLEAN :
           req_pc' = [req_pc EXCEPT ![r] = IF saved THEN "saved" ELSE "error"]
    /\ UNCHANGED <<processing_status, worker_pc, webFrame>>

\* thread = threading.Thread(target=process_files_worker, ...); thread.start();
\* return jsonify({'success': True})
StartWorker(r) ==
    /\ req_pc[r] = "saved"
    /\ req_pc' = [req_pc EXCEPT ![r] = "accepted"]
    /\ worker_pc' = [worker_pc EXCEPT ![r] = "started"]
    /\ UNCHANGED <<processing_status, webFrame>>

\* process_files_worker: processing_status['active'] = True, progress = 0,
\* log = [], then the first log_message.
WorkerBegin(r) ==
    /\ worker_pc[r] = "started"
    /\ processing_status' = [active |-> TRUE, progress |-> 0, log |-> <<r>>]
    /\ worker_pc' = [worker_pc EXCEPT ![r] = "running"]
    /\ UNCHANGED <<req_pc, webFrame>>

\* The files are processed and the report saved: progress = 100 and a last
\* log_message; or a raise, which the except clause logs.
WorkerProcess(r) ==
    /\ worker_pc[r] = "running"
    /\ \E ok \in BOOLEAN :
           processing_status' =
               [processing_status EXCEPT
                   !.progress = IF ok THEN 100 ELSE @,
                   !.log = Append(@, r)]
    /\ worker_pc' = [worker_pc EXCEPT ![r] = "finally"]
    /\ UNCHANGED <<req_pc, webFrame>>

\* finally: processing_status['active'] = False
WorkerFinally(r) ==
    /\ worker_pc[r] = "finally"
    /\ processing_status' = [processing_status EXCEPT !.active = FALSE]
    /\ worker_pc' = [worker_pc EXCEPT ![r] = "done"]
    /\ UNCHANGED <<req_pc, webFrame>>

\* ------------------------------------------------------------ specifications
InitCommon ==
    /\ pc = "start"
    /\ i = 0
    /\ analyzer = "None"
    /\ p2t = "None"
    /\ analysis_results = << >>
    /\ pdf = "None"
    /\ page_num = 0
    /\ page_weight = 1
    /\ reason = R_PLAIN
    /\ evald = << >>
    /\ ret = << >>
    /\ results = << >>
    /\ total_cost = 0
    /\ successful_files = 0
    /\ failed_files = 0
    /\ cleaned = {}
    /\ raised = {}
    /\ report_total = -1
    /\ _global_p2t_model = "None"
    /\ _model_lock = 0
    /\ tpc = [t \in Threads |-> "idle"]
    /\ tcalls = [t \in Threads |-> 0]
    /\ tret = [t \in Threads |-> "pending"]
    /\ ctor_runs = 0
    /\ ctor_ok = 0
    /\ processing_status = [active |-> FALSE, progress |-> 0, log |-> << >>]
    /\ req_pc = [r \in Requests |-> "idle"]
    /\ worker_pc = [r \in Requests |-> "none"]

\* No call of _image_has_formulas / _is_valid_table is examined alone.
ImageIdle ==
    /\ img_p2t = "None"
    /\ img_flaky = FALSE
    /\ img_list = << >>
    /\ img_pc = "idle"
    /\ img_log = << >>
    /\ img_ret = "running"

TableIdle ==
    /\ table = << >>
    /\ tab_pc = "idle"
    /\ tab_ret = "running"

PageTablesIdle ==
    /\ tables = << >>
    /\ hvt_raises = FALSE
    /\ hvt_pc = "idle"
    /\ hvt_k = 0
    /\ hvt_ret = "running"

FootnotesIdle ==
    /\ fn_pc = "idle"
    /\ text_footnote_refs = {}
    /\ footnote_definitions = {}
    /\ fn_ret = "running"

FormulasIdle ==
    /\ fm_pc = "idle"
    /\ fm_ret = "running"

TextIdle ==
    /\ text = << >>
    /\ FootnotesIdle
    /\ FormulasIdle

\* A batch over files of the catalogue (the web worker is only started with at
\* least one file), or one document with one page of any content.
Init ==
    /\ InitCommon
    /\ ImageIdle
    /\ TableIdle
    /\ PageTablesIdle
    /\ TextIdle
    /\ \/ /\ mode \in {"batch", "web"}
          /\ files \in FileLists
          /\ mode = "web" => files # << >>
       \/ /\ mode = "batch"
          /\ \E pl \in BOOLEAN, pg \in AllPages :
                 files = <<MkDoc("page.pdf", TRUE, TRUE, pl, <<pg>>)>>

Next ==
    \/ Start \/ Loop \/ Construct \/ AnalyzeOpen \/ PageLoop
    \/ Extract \/ TextFormulaStage \/ ImageFormulaStage \/ ImageStage
    \/ TableStage \/ SpecialStage \/ FootnoteStage \/ Return
    \/ Record \/ PageError \/ Collect \/ Except \/ Finally \/ SaveBatchReport

Spec == Init /\ [][Next]_vars

\* Concurrent callers of get_pix2text_model() (the web front end starts one
\* worker thread per accepted request, each constructing analyzers).
InitModel ==
    /\ InitCommon
    /\ ImageIdle
    /\ TableIdle
    /\ PageTablesIdle
    /\ TextIdle
    /\ mode = "web"
    /\ files = << >>

NextModel ==
    \E t \in Threads :
        Call(t) \/ Acquire(t) \/ Initialize(t) \/ Release(t) \/ Raise(t)

SpecModel == InitModel /\ [][NextModel]_vars

\* One call of _image_has_formulas on a page with any list of images, with or
\* without a recognizer.
InitImages ==
    /\ InitCommon
    /\ TableIdle
    /\ PageTablesIdle
    /\ TextIdle
    /\ mode = "batch"
    /\ files = << >>
    /\ img_p2t \in {"None", "model"}
    /\ img_flaky \in BOOLEAN
    /\ img_list \in ImageLists
    /\ img_pc = "entry"
    /\ img_log = << >>
    /\ img_ret = "running"

NextImages == ImageEntry \/ ImageExamine \/ ImageExhausted

SpecImages == InitImages /\ [][NextImages]_vars

\* One call of _is_valid_table on any explored grid: at most MaxFilled cells
\* are set, in a grid of absent cells or in the grid of running text.
InitTable ==
    /\ InitCommon
    /\ ImageIdle
    /\ PageTablesIdle
    /\ TextIdle
    /\ mode = "batch"
    /\ files = << >>
    /\ \E sh \in Shapes :
           \E F \in {G \in SUBSET ((1..sh[1]) \X (1..sh[2])) : Cardinality(G) <= MaxFilled} :
               \E texts \in {CellTexts, LongTexts} :
                   \E f \in [F -> texts] :
                       \/ table = Grid(sh[1], sh[2], f)
                       \/ /\ sh = <<3, 2>>
                          /\ table = Overlay(ProseGrid, f)
    /\ tab_pc = "shape"
    /\ tab_ret = "running"

NextTable == TableShape \/ TableDuplicate \/ TableFill \/ TableColumns \/ TableDecide

SpecTable == InitTable /\ [][NextTable]_vars

\* One call of _has_valid_tables on a page whose extraction raises or yields
\* any list of sample grids.
InitPageTables ==
    /\ InitCommon
    /\ ImageIdle
    /\ TableIdle
    /\ TextIdle
    /\ mode = "batch"
    /\ files = << >>
    /\ hvt_raises \in BOOLEAN
    /\ tables \in TableLists
    /\ hvt_pc = "extract"
    /\ hvt_k = 0
    /\ hvt_ret = "running"

NextPageTables == TablesExtract \/ TablesExamine \/ TablesExhausted

SpecPageTables == InitPageTables /\ [][NextPageTables]_vars

\* One call of _has_footnotes on any explored text.
InitFootnotes ==
    /\ InitCommon
    /\ ImageIdle
    /\ TableIdle
    /\ PageTablesIdle
    /\ mode = "batch"
    /\ files = << >>
    /\ text \in FootnoteTexts
    /\ fn_pc = "refs"
    /\ text_footnote_refs = {}
    /\ footnote_definitions = {}
    /\ fn_ret = "running"
    /\ FormulasIdle

NextFootnotes == FootnoteReferences \/ FootnoteDefinitions \/ FootnotePair

SpecFootnotes == InitFootnotes /\ [][NextFootnotes]_vars

\* One call of _has_formulas on any explored text.
InitFormulas ==
    /\ InitCommon
    /\ ImageIdle
    /\ TableIdle
    /\ PageTablesIdle
    /\ FootnotesIdle
    /\ mode = "batch"
    /\ files = << >>
    /\ text \in FormulaTexts
    /\ fm_pc = "patterns"
    /\ fm_ret = "running"

NextFormulas == FormulaPatterns \/ FormulaMultiline

SpecFormulas == InitFormulas /\ [][NextFormulas]_vars

\* The web front end with NumRequests /process requests arriving at any time.
InitWeb ==
    /\ InitCommon
    /\ ImageIdle
    /\ TableIdle
    /\ PageTablesIdle
    /\ TextIdle
    /\ mode = "web"
    /\ files = << >>

NextWeb ==
    \E r \in Requests :
        \/ CheckActive(r) \/ SaveUploads(r) \/ StartWorker(r)
        \/ WorkerBegin(r) \/ WorkerProcess(r) \/ WorkerFinally(r)

SpecWeb == InitWeb /\ [][NextWeb]_vars

\* ------------------------------------------------------------ properties
\* The page whose classification is in hand has been returned by
\* _analyze_single_page and is about to be recorded.
Classified == pc = "record"

NoStageRaised == \A k \in 1..Len(evald) : evald[k].out # "raise"

\* Tier and reason of each stage (spec section 4.6).
StageTier == <<4, 4, 3, 3, 2, 2>>
StageReason == <<R_FORMULA_TEXT, R_FORMULA_IMAGE, R_IMAGE, R_TABLE, R_SPECIAL, R_FOOTNOTE>>

\* The stages _analyze_single_page can evaluate for the current document, in
\* order: the table stage needs the pdfplumber handle.
RECURSIVE SkipTable(_)
SkipTable(seq) ==
    IF seq = << >> THEN << >>
    ELSE IF Head(seq) = 4 THEN SkipTable(Tail(seq))
    ELSE <<Head(seq)>> \o SkipTable(Tail(seq))

ExpectedStages == IF pdf = "None" THEN SkipTable(<<1, 2, 3, 4, 5, 6>>) ELSE <<1, 2, 3, 4, 5, 6>>

\* C1: for every page of a document that opened, whatever the detectors return
\* or raise, _analyze_single_page yields exactly one (tier, reason) pair - never
\* none (analyze's error handler is never entered without a pair in hand) and
\* never two - with tier in 1..4 and a reason of the fixed set; and every page
\* analyze() has gone past has an entry in analysis_results with a tier in 1..4.
C1_ExactlyOneClassification ==
    /\ pc \in {"record", "page_error"} =>
          /\ Len(ret) = 1
          /\ ret[1][1] \in 1..4
          /\ ret[1][2] \in Reasons \ {R_ERROR}
    /\ pc \in {"page_loop", "collect"} =>
          \A n \in 1..page_num :
              \E k \in 1..Len(analysis_results) :
                  /\ analysis_results[k].page = n
                  /\ analysis_results[k].weight \in 1..4

\* A page on which a stage raised and a later stage matched has been classified.
C1_Witness ==
    /\ Classified
    /\ \E k \in 1..Len(evald) : evald[k].out = "raise"
    /\ ret = <<(<<3, R_TABLE>>)>>

\* C2: priority dominance when no stage fails (text extracted, no stage raised).
\* A page whose text matches the formula detector is tier 4 even with images and
\* a valid table; a page with an image or a valid table and no formula (none in
\* the text, none found by the recognizer) is tier 3 even with special script or
\* footnotes; a page with special script or footnotes and none of the above is
\* tier 2; a page is tier 1 exactly when no detector matches. A valid table
\* counts when pdfplumber delivered the page's grids (pdf is open).
C2_PriorityDominance ==
    (Classified /\ CurPage.extract /\ NoStageRaised) =>
        LET tier == ret[1][1]
            formula == CurPage.formula \/ _image_has_formulas(p2t, CurPage.images)
            graphic == CurPage.images # << >> \/ (pdf = "open" /\ CurPage.table)
            script == CurPage.special \/ CurPage.footnote
        IN  /\ CurPage.formula => ret[1] = <<4, R_FORMULA_TEXT>>
            /\ formula => tier = 4
            /\ (~formula /\ graphic) => tier = 3
            /\ (~formula /\ ~graphic /\ script) => tier = 2
            /\ (~formula /\ ~graphic /\ ~script) <=> tier = 1

\* A page with a formula in its text, an image and a valid table was classified
\* tier 4 with no stage failing.
C2_Witness ==
    /\ Classified /\ CurPage.extract /\ NoStageRaised
    /\ CurPage.formula /\ CurPage.table /\ CurPage.images # << >> /\ pdf = "open"
    /\ CurPage.special
    /\ ret[1][1] = 4

\* C3: stage failure isolation. On a page whose text was extracted, the stages
\* are evaluated in order; a stage that raised counts as no match and the stage
\* after it is still evaluated; the page gets the tier and reason of the first
\* stage that matched, and the default (1, plain text) only after every stage
\* was evaluated without a match.
C3_StageFailureIsolation ==
    (Classified /\ CurPage.extract) =>
        LET n == Len(evald) IN
        /\ n >= 1
        /\ n <= Len(ExpectedStages)
        /\ \A k \in 1..n : evald[k].stage = ExpectedStages[k]
        /\ \A k \in 1..(n - 1) : evald[k].out \in {"none", "raise"}
        /\ IF evald[n].out = "match"
             THEN ret[1] = <<StageTier[evald[n].stage], StageReason[evald[n].stage]>>
             ELSE n = Len(ExpectedStages) /\ ret[1] = <<1, R_PLAIN>>

\* The text formula stage and the image stage raised, and the page was
\* classified by the footnote stage.
C3_Witness ==
    /\ Classified
    /\ Len(evald) = 6
    /\ evald[1].out = "raise" /\ evald[3].out = "raise"
    /\ evald[6].out = "match"
    /\ ret[1] = <<2, R_FOOTNOTE>>

\* C4: if every stage raises for a page, the page is tier 1 with a reason that
\* differs from the "plain text" reason of a page on which every stage ran and
\* found nothing.
C4_TotalFailureIsDistinguished ==
    (Classified /\ Len(evald) = 6 /\ \A k \in 1..6 : evald[k].out = "raise") =>
        (ret[1][1] = 1 /\ ret[1][2] # R_PLAIN)

\* The file of the batch with path p.
DocAt(p) == CHOOSE d \in {files[k] : k \in 1..Len(files)} : d.path = p

\* C5: no partial document result. A document of N pages that analyze()
\* returned for has a result list of exactly N entries with page identifiers
\* 1..N in ascending order, in the analyzer and in the batch results; a
\* document whose constructor or analyze() raised is absent from the results.
C5_NoPartialDocument ==
    /\ pc = "collect" =>
          /\ Len(analysis_results) = Len(CurDoc.pages)
          /\ \A k \in 1..Len(analysis_results) : analysis_results[k].page = k
    /\ \A p \in DOMAIN results :
          /\ results[p].pages = Len(DocAt(p).pages)
          /\ Len(results[p].dataframe) = Len(DocAt(p).pages)
          /\ \A k \in 1..Len(results[p].dataframe) : results[p].dataframe[k].page = k
    /\ \A p \in raised : p \notin DOMAIN results

\* C6 (state part): a document whose constructor or analyze() raised has no
\* entry in the results; when the loop over the files has ended every file of
\* the list was taken in turn, every file that cannot be constructed or opened
\* was met and counted as raised, and every other file with pages has its entry.
C6_FailedAbsentOthersProcessed ==
    /\ \A p \in raised : p \notin DOMAIN results
    /\ (pc \in {"returned", "done"} /\ files # << >>) =>
          /\ i = Len(files)
          /\ \A k \in 1..Len(files) :
                /\ (~files[k].ctor \/ ~files[k].opens) => files[k].path \in raised
                /\ \/ files[k].path \in raised
                   \/ files[k].path \in DOMAIN results
                   \/ files[k].pages = << >>

\* C6 (step part): no step, and so no failure of another document, changes or
\* removes an entry already recorded in the results.
C6_RecordedEntriesKept ==
    \A p \in DOMAIN results : p \in DOMAIN results' /\ results'[p] = results[p]

\* C6: batch partial-failure semantics, in batch_process_directory and in the
\* web worker: a failure (constructor or analyze() raising) in one document
\* leaves the entries recorded for all other documents unchanged, the failed
\* document has no entry in the results, and every remaining document of the
\* list is still processed.
C6_BatchPartialFailure ==
    [] C6_FailedAbsentOthersProcessed /\ [][C6_RecordedEntriesKept]_vars

\* The first file of two failed and the second has its entry in the results.
C6_Witness ==
    /\ pc = "done"
    /\ Len(files) = 2
    /\ files[1].path \in raised
    /\ files[2].path \in DOMAIN results

\* The fixed pricing table, by tier.
C7_Rates == <<9, 21, 25, 34>>

\* The costs of the rows of df added in the order perm visits them.
RECURSIVE C7_SumInOrder(_, _, _)
C7_SumInOrder(df, perm, k) ==
    IF k = 0 THEN 0 ELSE C7_SumInOrder(df, perm, k - 1) + df[perm[k]].cost

C7_Weights(df) == [k \in 1..Len(df) |-> df[k].weight]

\* The total as a function of how many rows each tier has: the same for every
\* order of the rows.
C7_SumByTier(df) ==
    LET n(w) == Cardinality({k \in 1..Len(df) : df[k].weight = w})
    IN  C7_Rates[1] * n(1) + C7_Rates[2] * n(2) + C7_Rates[3] * n(3) + C7_Rates[4] * n(4)

\* C7: every recorded page entry has the cost the fixed pricing table gives its
\* tier (4: 34, 3: 25, 2: 21, 1: 9); the total recorded for a document is the
\* exact sum of its page costs, whatever the order the pages are added in -
\* first to last, last to first, or any other, the total being determined by
\* the number of pages of each tier; tiers [4, 3, 1] give 68.
C7_PageCostsAndDocumentTotal ==
    /\ \A k \in 1..Len(analysis_results) :
          analysis_results[k].cost = C7_Rates[analysis_results[k].weight]
    /\ \A p \in DOMAIN results :
          LET df == results[p].dataframe IN
          /\ \A k \in 1..Len(df) : df[k].cost = C7_Rates[df[k].weight]
          /\ results[p].cost = C7_SumInOrder(df, [k \in 1..Len(df) |-> k], Len(df))
          /\ results[p].cost =
                 C7_SumInOrder(df, [k \in 1..Len(df) |-> Len(df) + 1 - k], Len(df))
          /\ results[p].cost = C7_SumByTier(df)
          /\ C7_Weights(df) = <<4, 3, 1>> => results[p].cost = 68

\* A document with tiers [4, 3, 1] was recorded with total 68.
C7_Witness ==
    \E p \in DOMAIN results :
        /\ C7_Weights(results[p].dataframe) = <<4, 3, 1>>
        /\ results[p].cost = 68

\* The totals of the documents in the results, and the costs of all their rows.
RECURSIVE C8_SumDocs(_)
C8_SumDocs(ps) ==
    IF ps = {} THEN 0
    ELSE LET p == CHOOSE x \in ps : TRUE IN results[p].cost + C8_SumDocs(ps \ {p})

RECURSIVE C8_SumRows(_)
C8_SumRows(rs) ==
    IF rs = {} THEN 0
    ELSE LET r == CHOOSE x \in rs : TRUE
         IN  results[r[1]].dataframe[r[2]].cost + C8_SumRows(rs \ {r})

\* Every (document, row) position of the batch results.
C8_AllRows ==
    UNION {{<<p, k>> : k \in 1..Len(results[p].dataframe)} : p \in DOMAIN results}

\* C8: the batch grand total is the sum of the totals of the documents in the
\* results, which is the sum of the costs of all their page entries, whatever
\* order the files were processed in; the running total of
\* batch_process_directory and the total save_batch_report recomputes agree.
C8_GrandTotal ==
    LET docs == C8_SumDocs(DOMAIN results) IN
    /\ docs = C8_SumRows(C8_AllRows)
    /\ mode = "batch" => total_cost = docs
    /\ report_total # -1 =>
          /\ report_total = docs
          /\ mode = "batch" => report_total = total_cost

\* A batch of two documents ended with both totals equal to 68 + 25.
C8_Witness ==
    /\ pc = "done"
    /\ mode = "batch"
    /\ Cardinality(DOMAIN results) = 2
    /\ total_cost = 93
    /\ report_total = 93

RECURSIVE C9_CallsStarted(_)
C9_CallsStarted(ts) ==
    IF ts = {} THEN 0
    ELSE LET t == CHOOSE x \in ts : TRUE IN tcalls[t] + C9_CallsStarted(ts \ {t})

C10_Step ==
    /\ (pc = "construct" /\ CurDoc.ctor) => pc' = "analyze"
    /\ (analyzer = "obj" /\ p2t = "None") => p2t' = "None"
    /\ (pc = "s2" /\ p2t = "None") =>
          /\ pc' = "s3"
          /\ evald' = Append(evald, [stage |-> 2, out |-> "none"])

C11_CheckedNoFormula ==
    IF _image_has_formulas("model", <<"plain">>) THEN "match" ELSE "none"

\* C11: with the recognizer unavailable, what the caller of the image formula
\* detector observes on a page with images differs from what it observes when
\* the images were checked and no formula was found.
C11_UnavailabilityIsVisible ==
    (pc = "s3" /\ p2t = "None" /\ CurPage.images # << >>) =>
        evald[Len(evald)].out # C11_CheckedNoFormula

\* C12: the image formula detector never raises because of the recognizer.
\* Without a recognizer it returns False before it looks at any image; it
\* raises only when page.get_images() does, before any image was examined; and
\* an image whose extraction, decoding or recognition raised is skipped as a
\* non-match, the image after it being examined next.
C12_DetectorAbsorbsRecognizerFailures ==
    /\ img_ret = "raised" => (img_p2t # "None" /\ img_flaky /\ img_log = << >>)
    /\ (img_pc = "done" /\ img_p2t = "None") => (img_ret = "False" /\ img_log = << >>)
    /\ \A j \in 1..Len(img_log) :
          img_list[j] = "error" =>
              /\ img_log[j] = "skipped"
              /\ (img_pc = "done" /\ j < Len(img_list)) => Len(img_log) > j

\* The first image raised, the second was still examined and held a formula.
C12_Witness ==
    /\ img_pc = "done"
    /\ img_list = <<"error", "formula_region">>
    /\ img_log = <<"skipped", "match">>
    /\ img_ret = "True"

\* A page with text and no formula in it, whose images all fail in extraction,
\* decoding or recognition, classified by an analyzer that has a recognizer.
C13_RecognitionFailsOnEveryImage ==
    /\ CurPage.extract
    /\ ~CurPage.formula
    /\ p2t = "model"
    /\ CurPage.images # << >>
    /\ \A j \in 1..Len(CurPage.images) : CurPage.images[j] = "error"

\* C13: resilience. When recognition fails for every image of a page whose
\* text has no formula, the image formula stage is a non-match, the stage
\* after it is evaluated and the page is returned to the caller with the tier
\* of the first later stage that matches - (3, image) when the image stage
\* ran without raising - and tier 1 exactly when no later stage matches; the
\* page handler of analyze() is not entered by the failure.
C13_RecognitionFailureFallsToLowerTier ==
    /\ (Classified /\ C13_RecognitionFailsOnEveryImage) =>
          /\ Len(ret) = 1
          /\ Len(evald) >= 3
          /\ evald[2].stage = 2 /\ evald[2].out \in {"none", "raise"}
          /\ evald[3].stage = 3
          /\ evald[3].out # "raise" => ret[1] = <<3, R_IMAGE>>
          /\ ret[1][1] \in 1..3
          /\ ret[1][1] = 1 <=> \A k \in 1..Len(evald) : evald[k].out # "match"
    /\ (pc = "page_error" /\ C13_RecognitionFailsOnEveryImage) => Len(ret) = 1

\* Recognition failed on both images of a page and the page is (3, image).
C13_Witness ==
    /\ Classified
    /\ C13_RecognitionFailsOnEveryImage
    /\ Len(CurPage.images) = 2
    /\ evald[2].out = "none"
    /\ ret[1] = <<3, R_IMAGE>>

\* C14: extraction failure as empty input. When extracting the page's text
\* failed, the stages that do not need the text - image formula, image, and
\* table when pdfplumber is open - are still evaluated, and a page with an
\* embedded image whose image stage did not raise is classified tier 3 or
\* higher.
C14_ExtractionFailureIsEmptyInput ==
    (Classified /\ ~CurPage.extract) =>
        /\ \A st \in {2, 3} : \E k \in 1..Len(evald) : evald[k].stage = st
        /\ pdf = "open" => \E k \in 1..Len(evald) : evald[k].stage = 4
        /\ (/\ CurPage.images # << >>
            /\ \A k \in 1..Len(evald) : evald[k].stage = 3 => evald[k].out # "raise")
              => ret[1][1] >= 3

\* The classification rows of document p in the batch results (the rows
\* analyze()'s page handler wrote are not classifications).
C15_Rows(p) ==
    {k \in 1..Len(results[p].dataframe) : results[p].dataframe[k].reason # R_ERROR}

C15_Classify(page, model, plumber) ==
    LET inImage == /\ model # "None"
                   /\ \E j \in 1..Len(page.images) :
                          page.images[j] \in {"formula_region", "formula_text"}
    IN  CASE ~page.extract -> <<1, R_PLAIN>>
          [] page.extract /\ page.formula -> <<4, R_FORMULA_TEXT>>
          [] page.extract /\ ~page.formula /\ inImage -> <<4, R_FORMULA_IMAGE>>
          [] OTHER ->
               IF page.images # << >> THEN <<3, R_IMAGE>>
               ELSE IF plumber = "open" /\ page.table THEN <<3, R_TABLE>>
               ELSE IF page.special THEN <<2, R_SPECIAL>>
               ELSE IF page.footnote THEN <<2, R_FOOTNOTE>>
               ELSE <<1, R_PLAIN>>

C16_InOrderMatchLast ==
    LET n == Len(evald) IN
    /\ pc \in {"s1", "s2", "s3", "s4", "s5", "s6", "return", "record"} =>
          /\ n <= Len(ExpectedStages)
          /\ \A k \in 1..n : evald[k].stage = ExpectedStages[k]
    /\ \A k \in 1..n : evald[k].out = "match" => k = n
    /\ (n >= 1 /\ evald[1].out = "match") => n = 1

\* C16 (step part): once a stage has matched, no step evaluates another stage
\* for that page.
C16_NoStageAfterMatch ==
    (evald # << >> /\ evald[Len(evald)].out = "match") =>
        (evald' = evald \/ evald' = << >>)

\* C16: pipeline short-circuit. Stages are evaluated strictly in priority order
\* and once a stage matches no later stage is evaluated for that page; the
\* recognizer is never invoked for a page whose text matches the formula
\* detector.
C16_PipelineShortCircuit ==
    [] C16_InOrderMatchLast /\ [][C16_NoStageAfterMatch]_vars

\* A page with a formula in its text and a formula image was returned after
\* the text formula stage alone.
C16_Witness ==
    /\ Classified
    /\ p2t = "model"
    /\ CurPage.formula
    /\ CurPage.images = <<"formula_region">>
    /\ evald = <<[stage |-> 1, out |-> "match"]>>
    /\ ret[1] = <<4, R_FORMULA_TEXT>>

\* The positions of the images that hold a formula region or formula text.
C17_Hits == {j \in 1..Len(img_list) : img_list[j] \in {"formula_region", "formula_text"}}

\* C17: image detector short-circuit. With the recognizer available and
\* get_images() delivering the images, the detector returns True exactly when
\* some image holds a formula, having examined the images up to the first such
\* image and none after it; it returns False only after examining every image
\* without a match. The one-step summary used by the page pipeline agrees.
C17_ImageDetectorShortCircuit ==
    (img_pc = "done" /\ img_p2t = "model" /\ img_ret # "raised") =>
        /\ img_ret = "True" <=> C17_Hits # {}
        /\ img_ret = "True" =>
              /\ Len(img_log) \in C17_Hits
              /\ \A h \in C17_Hits : Len(img_log) <= h
              /\ img_log[Len(img_log)] = "match"
        /\ img_ret = "False" =>
              /\ Len(img_log) = Len(img_list)
              /\ \A j \in 1..Len(img_log) : img_log[j] \in {"no match", "skipped"}
        /\ (img_ret = "True") = _image_has_formulas(img_p2t, img_list)

\* The first image held formula text; the detector returned True without
\* examining the second.
C17_Witness ==
    /\ img_pc = "done"
    /\ img_p2t = "model"
    /\ img_list = <<"formula_text", "plain">>
    /\ img_log = <<"match">>
    /\ img_ret = "True"

\* An empty cell: absent, the empty string, or whitespace only.
C18_Empty(cell) == cell = None \/ \A k \in 1..Len(cell) : IsSpace(cell[k])

\* The positions (row, column) of a grid.
C18_Positions(t) == UNION {{<<r, c>> : c \in 1..Len(t[r])} : r \in 1..Len(t)}

C18_NonEmptyCount(t) ==
    Cardinality({x \in C18_Positions(t) : ~C18_Empty(t[x[1]][x[2]])})

\* C18: table rejection by fill ratio. Every grid in which fewer than 50% of
\* the cells are non-empty is rejected by _is_valid_table; a 2x2 grid whose
\* cells are all empty is such a grid.
C18_SparseGridRejected ==
    tab_pc = "done" =>
        /\ 2 * C18_NonEmptyCount(table) < Cardinality(C18_Positions(table))
              => tab_ret = "False"
        /\ (/\ Len(table) = 2
            /\ \A r \in 1..2 : Len(table[r]) = 2
            /\ \A x \in C18_Positions(table) : C18_Empty(table[x[1]][x[2]]))
              => tab_ret = "False"

\* A 2x3 grid with two filled cells that no other test rejects and the final
\* rules would accept was rejected.
C18_Witness ==
    /\ tab_pc = "done"
    /\ table = <<(<<S_TYPE, None, None>>), (<<None, S_TYPE, None>>)>>
    /\ ~TooSmall(table) /\ ~DuplicateHeader(table) /\ ~TooManyEmptyColumns(table)
    /\ FinalDecision(table)
    /\ tab_ret = "False"

\* C19: table rejection by duplicate header. Every grid whose first row's first
\* two cells are both non-empty (neither absent nor the empty string) and are
\* identical, or one contained in the other, is rejected, whatever the rest of
\* the grid holds.
C19_DuplicateHeaderRejected ==
    (/\ tab_pc = "done"
     /\ Len(table) >= 1
     /\ Len(table[1]) >= 2
     /\ table[1][1] \notin {None, S_EMPTY}
     /\ table[1][2] \notin {None, S_EMPTY}
     /\ \/ table[1][1] = table[1][2]
        \/ IsSubstring(table[1][1], table[1][2])
        \/ IsSubstring(table[1][2], table[1][1]))
        => tab_ret = "False"

\* A grid with header cells "No" and "Note" and a numeric cell, which the
\* final rules would accept, was rejected.
C19_Witness ==
    /\ tab_pc = "done"
    /\ table = <<(<<S_NO, S_NOTE>>), (<<S_SEVEN, None>>)>>
    /\ ~SparseCells(table) /\ ~TooManyEmptyColumns(table)
    /\ FinalDecision(table)
    /\ tab_ret = "False"

\* The number of columns of a grid, and its columns that are entirely empty.
C20_Columns(t) == IF t = << >> THEN 0 ELSE Len(t[1])
C20_EmptyColumns(t) ==
    {c \in 1..C20_Columns(t) : \A r \in 1..Len(t) : C18_Empty(t[r][c])}

C21_PassedRejections(t) ==
    /\ ~TooSmall(t) /\ ~DuplicateHeader(t) /\ ~SparseCells(t)
    /\ ~TooManyEmptyColumns(t) /\ ~Uneven(t)

\* The rows of a two-column grid in which both cells are non-empty, and the
\* summed cell lengths of a column over them.
C21_Pairs(t) == {r \in 1..Len(t) : Len(t[r]) >= 2 /\ Truthy(t[r][1]) /\ Truthy(t[r][2])}
C21_ColumnLength(t, c) == Sum([r \in 1..Len(t) |-> IF r \in C21_Pairs(t) THEN Len(t[r][c]) ELSE 0])

\* The number of the first rule of the final decision that applies, 5 when
\* none of the first four does.
C21_FirstApplicableRule(t) ==
    LET tab == table_indicators(t)
        txt == text_indicators(t)
    IN  IF tab >= 2 /\ txt = 0 THEN 1
        ELSE IF tab = 0 /\ txt > 0 THEN 2
        ELSE IF numeric_cells(t) > 0 /\ empty_columns(t) = 0 THEN 3
        ELSE IF /\ cols(t) = 2 /\ rows(t) >= 2 /\ empty_columns(t) = 0
                /\ tab >= 1
                /\ C21_Pairs(t) # {}
                /\ C21_ColumnLength(t, 2) > 2 * C21_ColumnLength(t, 1)
                /\ C21_ColumnLength(t, 1) < 100 * Cardinality(C21_Pairs(t))
          THEN 4
        ELSE 5

\* C21: for a grid that passes every rejection test, the verdict of
\* _is_valid_table is that of the first applicable rule: valid under rules 1,
\* 3 and 4, not valid under rule 2 and when no rule applies.
C21_FirstApplicableRuleDecides ==
    (tab_pc = "done" /\ C21_PassedRejections(table)) =>
        tab_ret = (IF C21_FirstApplicableRule(table) \in {1, 3, 4} THEN "True" ELSE "False")

\* A grid of running text with a digit in it and no empty column: rule 2
\* decided, where rule 3 alone would have accepted the grid.
C21_Witness ==
    /\ tab_pc = "done"
    /\ C21_PassedRejections(table)
    /\ C21_FirstApplicableRule(table) = 2
    /\ numeric_cells(table) > 0 /\ empty_columns(table) = 0
    /\ tab_ret = "False"

\* ------------------------------------------------------------ C22
\* C22: _has_valid_tables answers True exactly when extraction did not raise
\* and at least one of the extracted grids is valid; no grids, or a raising
\* extraction, give False.
C22_TableIffSomeGridValid ==
    hvt_pc = "done" =>
        /\ hvt_ret = "True" <=>
               (~hvt_raises /\ \E k \in 1..Len(tables) : _is_valid_table(tables[k]))
        /\ (hvt_raises \/ tables = << >>) => hvt_ret = "False"

\* A page whose first grid is not valid and whose last one is: True.
C22_Witness ==
    /\ hvt_pc = "done"
    /\ ~hvt_raises
    /\ Len(tables) >= 2
    /\ ~_is_valid_table(tables[1])
    /\ _is_valid_table(tables[Len(tables)])
    /\ hvt_ret = "True"

\* ------------------------------------------------------------ C23
\* The texts "а1" + line feed + "1 а" (a marker and its definition line) and
\* "а1" (the marker alone).
C23_MarkerAndDefinition == <<1072, 49, 10, 49, 32, 1072>>
C23_MarkerOnly == <<1072, 49>>

\* C23: _has_footnotes returns True exactly when some number string is both
\* in the set of reference markers and in the set of definition numbers; a
\* marker with its definition line is footnoted, the marker alone is not.
C23_FootnotePairing ==
    fn_pc = "done" =>
        /\ fn_ret = "True" <=>
               \E n \in text_footnote_refs : n \in footnote_definitions
        /\ text = C23_MarkerAndDefinition => fn_ret = "True"
        /\ text = C23_MarkerOnly => fn_ret = "False"

\* A text with a marker that has no definition and one that has: True.
C23_Witness ==
    /\ fn_pc = "done"
    /\ text_footnote_refs \cap footnote_definitions # {}
    /\ text_footnote_refs \ footnote_definitions # {}
    /\ fn_ret = "True"

\* ------------------------------------------------------------ C24
\* The digit runs of a text, as pairs (first index, index after the last).
C24_DigitRuns(s) ==
    {x \in (1..Len(s)) \X (2..(Len(s) + 1)) :
        /\ x[1] < x[2]
        /\ \A k \in x[1]..(x[2] - 1) : IsDigit(s[k])
        /\ (x[1] = 1 \/ ~IsDigit(s[x[1] - 1]))
        /\ (x[2] = Len(s) + 1 \/ ~IsDigit(s[x[2]]))}

\* The run opens its line: only whitespace lies between it and the start of
\* the line.
C24_OpensLine(s, q) ==
    \E b \in 0..(q - 1) :
        /\ (b = 0 \/ s[b] = 10)
        /\ \A k \in (b + 1)..(q - 1) : IsSpace(s[k])

\* The run is attached to a word: a letter stands right before it, or a
\* letter and a punctuation mark and then only whitespace.
C24_AttachedToWord(s, q) ==
    \/ q > 1 /\ IsCyrillicIgnoreCase(s[q - 1])
    \/ \E b \in 2..(q - 1) :
           /\ IsPunctuation(s[b]) /\ IsCyrillicIgnoreCase(s[b - 1])
           /\ \A k \in (b + 1)..(q - 1) : IsSpace(s[k])

\* The numbers that occur in the body of the text attached to a word, the
\* numbers that open a line not counted.
C24_InBodyMarkers(s) ==
    {SubSeq(s, x[1], x[2] - 1) :
        x \in {y \in C24_DigitRuns(s) : C24_AttachedToWord(s, y[1]) /\ ~C24_OpensLine(s, y[1])}}

\* C24: when no definition number of the text occurs in its body attached to
\* a word, _has_footnotes returns False; the number that opens a definition
\* line is not its own reference marker.
C24_BareDefinitionInsufficient ==
    (fn_pc = "done" /\ footnote_definitions \cap C24_InBodyMarkers(text) = {}) =>
        fn_ret = "False"

\* ------------------------------------------------------------ C25
\* A year-like number (four digits, the first two 18, 19 or 20) stands at
\* position q of the text.
C25_YearAt(s, q) ==
    /\ q + 3 <= Len(s)
    /\ \A k \in q..(q + 3) : IsDigit(s[k])
    /\ (q = 1 \/ ~IsDigit(s[q - 1]))
    /\ (q + 3 = Len(s) \/ ~IsDigit(s[q + 4]))
    /\ SubSeq(s, q, q + 1) \in {<<49, 56>>, <<49, 57>>, <<50, 48>>}

\* C25: the reference set only ever holds digit strings of length 1 or 2; a
\* year-like number of the text is never in it, whatever precedes it.
C25_YearsExcluded ==
    /\ \A n \in text_footnote_refs :
           /\ Len(n) \in {1, 2}
           /\ \A k \in 1..Len(n) : IsDigit(n[k])
    /\ \A q \in 1..Len(text) :
           C25_YearAt(text, q) => SubSeq(text, q, q + 3) \notin text_footnote_refs

\* The references of a text were collected in which a year directly follows
\* a letter.
C25_Witness ==
    /\ fn_pc = "defs"
    /\ \E q \in 2..Len(text) : C25_YearAt(text, q) /\ IsCyrillic(text[q - 1])

\* ------------------------------------------------------------ C26
\* A function-call-like token: a Latin letter, an opening parenthesis, an
\* argument list of Latin letters, digits, commas and whitespace, a closing
\* parenthesis.
C26_HasCallToken(s) ==
    \E a \in 1..Len(s), b \in 1..Len(s) :
        /\ a >= 2 /\ a < b
        /\ IsLatin(s[a - 1]) /\ s[a] = 40 /\ s[b] = 41
        /\ \A k \in (a + 1)..(b - 1) : IsLatin(s[k]) \/ s[k] \in 48..57 \/ s[k] = 44 \/ IsSpace(s[k])

\* An exponent marker: a caret and a digit.
C26_HasExponent(s) == \E a \in 1..(Len(s) - 1) : s[a] = 94 /\ s[a + 1] \in 48..57

\* C26: a text that holds a function-call-like token or an exponent marker
\* satisfies _has_formulas, whatever stands around the token.
C26_CallOrExponentIsFormula ==
    (fm_pc = "done" /\ (C26_HasCallToken(text) \/ C26_HasExponent(text))) => fm_ret = "True"

\* "u(x,t)" between two other pieces of text: True.
C26_Witness ==
    /\ fm_pc = "done"
    /\ \E a \in 2..Len(text) :
           /\ a + Len(T_CALL) <= Len(text)
           /\ SubSeq(text, a, a + Len(T_CALL) - 1) = T_CALL
    /\ ~C26_HasExponent(text)
    /\ fm_ret = "True"

\* ------------------------------------------------------------ C27
\* The stretches of a text between whitespace, as pairs (first, last index).
C27_Words(s) ==
    {x \in (1..Len(s)) \X (1..Len(s)) :
        /\ x[1] <= x[2]
        /\ \A k \in x[1]..x[2] : ~IsSpace(s[k])
        /\ (x[1] = 1 \/ IsSpace(s[x[1] - 1]))
        /\ (x[2] = Len(s) \/ IsSpace(s[x[2] + 1]))}

\* A product code: capital Latin letters, a hyphen, digits.
C27_IsCode(w) ==
    \E h \in 2..(Len(w) - 1) :
        /\ w[h] = 45
        /\ \A k \in 1..(h - 1) : w[k] \in 65..90
        /\ \A k \in (h + 1)..Len(w) : w[k] \in 48..57

C27_IsCyrillicWord(w) == \A k \in 1..Len(w) : IsCyrillicIgnoreCase(w[k])

C27_HasCode(s) == \E x \in C27_Words(s) : C27_IsCode(SubSeq(s, x[1], x[2]))
C27_HasCyrillicWord(s) == \E x \in C27_Words(s) : C27_IsCyrillicWord(SubSeq(s, x[1], x[2]))

\* The text consists of product codes and Cyrillic words only.
C27_CodesAndWords(s) ==
    /\ \A k \in 1..Len(s) :
           \/ s[k] \in 65..90 \/ s[k] = 45 \/ s[k] \in 48..57
           \/ IsCyrillicIgnoreCase(s[k]) \/ IsSpace(s[k])
    /\ \A x \in C27_Words(s) :
           C27_IsCode(SubSeq(s, x[1], x[2])) \/ C27_IsCyrillicWord(SubSeq(s, x[1], x[2]))

\* C27: on a text that consists only of product codes and Cyrillic words
\* no pattern matches, on the text, on its cleaned copy or across lines, and
\* _has_formulas returns False.
C27_ProductCodeIsNoFormula ==
    C27_CodesAndWords(text) =>
        /\ ~PatternFound(text) /\ ~PatternFound(cleaned_text(text))
        /\ \A p \in 1..Len(text) : ~MultilineFunctionAt(text, p)
        /\ fm_pc = "done" => fm_ret = "False"

\* A product code and a Cyrillic word: False.
C27_Witness ==
    /\ fm_pc = "done"
    /\ C27_CodesAndWords(text)
    /\ C27_HasCode(text) /\ C27_HasCyrillicWord(text)
    /\ fm_ret = "False"

\* ------------------------------------------------------------ C28
\* C28: analysis_results never holds two entries for one page, and once a
\* page's block has been left (the loop is at its head again, or analyze has
\* returned) it holds exactly one entry for each page taken so far.
C28_OneEntryPerPage ==
    /\ \A j \in 1..Len(analysis_results), k \in 1..Len(analysis_results) :
           j # k => analysis_results[j].page # analysis_results[k].page
    /\ pc \in {"page_loop", "collect"} =>
           \A n \in 1..page_num :
               Cardinality({k \in 1..Len(analysis_results) : analysis_results[k].page = n}) = 1

\* ------------------------------------------------------------ C29
\* The requests whose worker thread has been started and has not finished.
C29_Running == {r \in Requests : worker_pc[r] \in {"started", "running", "finally"}}

\* C29: at most one process_files_worker runs at a time, and a request that
\* checks for a running job after another was accepted and before that one's
\* worker has finished is rejected.
C29_MutualExclusion ==
    /\ [](Cardinality(C29_Running) <= 1)
    /\ [][\A r \in Requests :
             (C29_Running # {} /\ req_pc[r] = "idle" /\ req_pc'[r] # "idle")
                 => req_pc'[r] = "rejected"]_vars

\* ------------------------------------------------------------ C30
\* The file at position k of the batch is over: a later file is in hand, or
\* the finally block of the file has run.
C30_FileOver(k) == k < i \/ (k = i /\ pc \in {"loop", "returned", "done"})

\* C30: in batch_process_directory every analyzer that was constructed has
\* had cleanup() called when its file is over, whether the file was recorded,
\* gave no rows or failed; and the step that calls cleanup(), like every other
\* step, leaves what the batch results hold for a recorded document as it is.
C30_CleanupBeforeNextFile ==
    /\ [](mode = "batch" =>
             \A k \in 1..Len(files) :
                 (C30_FileOver(k) /\ files[k].ctor) => files[k].path \in cleaned)
    /\ [][mode = "batch" =>
             /\ \A q \in DOMAIN results : q \in DOMAIN results' /\ results'[q] = results[q]
             /\ cleaned' # cleaned => (results' = results /\ total_cost' = total_cost)]_vars

\* A batch has ended in which one document was recorded with its rows and
\* another failed after its analyzer had been constructed; both were cleaned.
C30_Witness ==
    /\ mode = "batch"
    /\ pc = "returned"
    /\ analysis_results = << >>
    /\ \E q \in DOMAIN results : q \in cleaned /\ results[q].dataframe # << >>
    /\ \E q \in raised : q \in cleaned
====
